---- MODULE Spec2Model ----
(***************************************************************************)
(* A model of mqtop's connection-resilience layer: the backoff policy and  *)
(* the health tracker of src/mqtt/resilience.rs, the event-loop task that  *)
(* connect_with_backoff spawns in src/mqtt/client.rs, the event channel,   *)
(* and the main loop of src/main.rs that dispatches the events to the App  *)
(* and switches servers.                                                    *)
(*                                                                         *)
(* Durations are whole milliseconds.  All values drawn by the              *)
(* specifications stay below 2^31, so the u64 saturation of                *)
(* saturating_mul (at 2^64-1 ms) is outside the explored range.            *)
(***************************************************************************)
EXTENDS Integers, Sequences, FiniteSets, TLC

VARIABLES
    \* ---- the running system (Spec, SpecLock) ----
    strategy,          \* the BackoffStrategy handed to connect_with_backoff
    server_config,     \* use_exact_client_id / keep_alive_secs of the server
    pc,                \* position of each client's event-loop task
    connected,         \* whether a client's event loop holds a live connection
    gave_up,           \* history: the task has sent StateChange(Disconnected)
    health,            \* each client's ConnectionHealth (behind the RwLock)
    lock,              \* each client's RwLock: writer, readers, FIFO of waiters
    error_str,         \* the error of the failed poll a task is handling
    sleep_delay,       \* the delay a sleeping task was put to sleep for
    channel,           \* the unbounded mpsc channel of MqttEvents
    connection_state,  \* App.connection_state
    last_error,        \* App.last_error
    total_messages,    \* messages the App has processed (stats total)
    mqtt_client,       \* the client the main loop holds (0: none)
    main_pc,           \* position of the main task
    rpc,               \* position of each reader of the current client's health
    \* ---- a ConnectionHealth driven call by call (SpecHealth) ----
    h,                 \* the ConnectionHealth under test
    calls,             \* the calls made on it so far, oldest first
    \* ---- the backoff policy evaluated attempt by attempt (SpecBackoff) ----
    b_strategy,        \* the BackoffStrategy under test
    attempt,           \* the attempt number last evaluated
    delay,             \* delay_for_attempt(attempt)
    prev_delay,        \* delay_for_attempt(attempt - 1), when evaluated before
    \* ---- a message log driven call by call (SpecLog) ----
    mbuf,              \* the MessageBuffer under test
    pushed,            \* per topic, the messages pushed since it was cleared
    log_ops,           \* the number of calls made on the log
    \* ---- topic_matches applied to a pattern and a topic (SpecMatch) ----
    pattern_str,       \* the pattern string
    topic_str,         \* the topic string
    matched,           \* whether topic_matches was evaluated, and its result
    \* ---- a topic index driven call by call (SpecTree) ----
    topic_tree,        \* the TopicTree under test
    inserted,          \* the topic strings inserted since the last clear
    tree_ops,          \* the number of calls made on the tree
    tree_query,        \* the query made last on the tree as it is, its result
    \* ---- the dispatcher fed any sequence of events (SpecApp) ----
    app,               \* the App fields handle_mqtt_event writes
    last_event,        \* the event handled last
    before,            \* the App as it was before that event
    handled,           \* the number of events handled
    \* ---- the traffic statistics driven call by call (SpecStats) ----
    traffic,           \* the Stats under test
    recorded,          \* the arrivals recorded since the last reset
    stats_op,          \* the call made last on the statistics
    rates,             \* the rates read by that call, when it read them
    \* ---- a metric tracker driven call by call (SpecMetric) ----
    tracker,           \* the MetricTracker under test
    tracker_before,    \* the tracker as it was before the last call
    metric_log,        \* per label, the messages processed since track()
    last_message,      \* the message processed last
    metric_op,         \* the call made last on the tracker
    spark,             \* the sparkline read by that call, when it read one
    \* ---- the device tracker (SpecDevice, SpecDeviceRun) ----
    dev_tracker,       \* the DeviceTracker
    dev_arrivals,      \* per device, the instants of all its messages
    dev_op,            \* the call made on the tracker at this instant
    dev_topic,         \* the topic of the message process_message got last
    displayed,         \* what the display read last: counts and statuses
    \* ---- the schema tracker (SpecSchema) ----
    schema_tracker,    \* the SchemaTracker
    schema_call,       \* the last process_message: topic, payload, result
    schema_seen,       \* per topic, the JSON payload processed last
    schema_detected,   \* all the changes returned so far, in order
    \* ---- the latency tracker (SpecLatency) ----
    lat_tracker,       \* the LatencyTracker
    lat_call,          \* the last record_message: payload, outcome, count
    now                \* the clock read by the tree and the statistics

sysvars == <<strategy, server_config, pc, connected, gave_up, health, lock,
             error_str, sleep_delay, channel, connection_state, last_error,
             total_messages, mqtt_client, main_pc, rpc>>
hvars == <<h, calls>>
bvars == <<b_strategy, attempt, delay, prev_delay>>
lvars == <<mbuf, pushed, log_ops>>
mvars == <<pattern_str, topic_str, matched>>
tvars == <<topic_tree, inserted, tree_ops, tree_query>>
avars == <<app, last_event, before, handled>>
svars == <<traffic, recorded, stats_op, rates>>
kvars == <<tracker, tracker_before, metric_log, last_message, metric_op,
           spark>>
gvars == <<dev_tracker, dev_arrivals, dev_op, dev_topic, displayed>>
cvars == <<schema_tracker, schema_call, schema_seen, schema_detected>>
yvars == <<lat_tracker, lat_call>>
trvars == <<svars, kvars, gvars, cvars, yvars>>
dvars == <<lvars, mvars, tvars, avars, trvars, now>>
vars == <<sysvars, hvars, bvars, dvars>>

----------------------------------------------------------------------------
\* Bounds of the model.

MaxClients == 2        \* clients created in one run (first connect + switches)
MaxFailures == 2       \* consecutive failures one task runs into
MaxConnections == 2    \* ConnAcks one task receives
MaxQueue == 2          \* events in flight on the channel
MaxMessages == 1       \* Message events the App processes
NumReaders == 2        \* concurrent readers of a client's health
MaxCalls == 5          \* calls made on the ConnectionHealth under test
MaxCapacity == 2       \* capacities of the message log under test
MaxLogOps == 5         \* calls made on the message log under test
MaxLen == 4            \* characters of a pattern or topic string
MaxTreeOps == 3        \* calls made on the topic tree under test
MaxRecords == 3        \* record_message calls between two resets
MaxClock == 6          \* the clock stops after this many seconds
MaxProcessed == 3      \* messages a tracked metric sees after track()
MaxDeviceMessages == 2 \* messages attributed to devices
MaxHalfMinutes == 11   \* half minutes the clock advances
MaxSchemaMessages == 3 \* messages the schema tracker gets
MaxLatencyMessages == 3 \* messages the latency tracker gets
MaxLatencyMillis == 2000 \* milliseconds that pass while it gets them
MaxEvents == 4         \* events handed to handle_mqtt_event
MaxAttempt == 23       \* attempt numbers handed to delay_for_attempt

\* Program constants.
ExponentCap == 20
JitterStep == 17
DefaultBaseDelayMs == 5000
DefaultMaxDelaySecs == 60
MinDelayExtraSecs == 2
DefaultKeepAliveSecs == 30

----------------------------------------------------------------------------
\* Option<T>

None == [some |-> FALSE, v |-> 0]
Some(x) == [some |-> TRUE, v |-> x]

NoError == "None"

Min(a, b) == IF a < b THEN a ELSE b
Max(a, b) == IF a > b THEN a ELSE b

\* u32::saturating_sub
saturating_sub(a, b) == IF a > b THEN a - b ELSE 0

----------------------------------------------------------------------------
\* BackoffStrategy (resilience.rs)

Jitter(num, den) == [num |-> num, den |-> den]

BackoffDefault ==
    [base_delay_ms |-> DefaultBaseDelayMs,
     max_delay |-> DefaultMaxDelaySecs * 1000,
     max_attempts |-> None,
     jitter_factor |-> Jitter(1, 10)]

with_base_delay(b, ms) == [b EXCEPT !.base_delay_ms = ms]
with_max_delay(b, ms) == [b EXCEPT !.max_delay = ms]
with_max_attempts(b, n) == [b EXCEPT !.max_attempts = Some(n)]
with_jitter(b, num, den) == [b EXCEPT !.jitter_factor = Jitter(num, den)]

\* (x as f64 * jitter_factor) as u64, the factor being the rational num/den
ScaleByJitter(x, j) ==
    (x \div j.den) * j.num + ((x % j.den) * j.num) \div j.den

\* A backoff_delay whose exponent is the attempt number itself
backoff_delay_exponent_off_by_one(b, a) ==
    LET exponent == Min(a, ExponentCap)
        delay_ms == b.base_delay_ms * (2 ^ exponent)
        d == Min(delay_ms, b.max_delay)
        jitter_range == ScaleByJitter(d, b.jitter_factor)
        jitter == IF jitter_range > 0 THEN (a * JitterStep) % jitter_range ELSE 0
    IN Min(d + jitter, b.max_delay)

\* A backoff_delay that is not capped again after the jitter is added
backoff_delay_no_final_cap(b, a) ==
    LET exponent == Min(saturating_sub(a, 1), ExponentCap)
        delay_ms == b.base_delay_ms * (2 ^ exponent)
        d == Min(delay_ms, b.max_delay)
        jitter_range == ScaleByJitter(d, b.jitter_factor)
        jitter == IF jitter_range > 0 THEN (a * JitterStep) % jitter_range ELSE 0
    IN d + jitter

\* The delay of delay_for_attempt once the attempt is within the limit:
\* base * 2^(attempt-1), capped, plus the deterministic jitter, capped again
backoff_delay(b, a) ==
    LET exponent == Min(saturating_sub(a, 1), ExponentCap)
        delay_ms == b.base_delay_ms * (2 ^ exponent)
        d == Min(delay_ms, b.max_delay)
        jitter_range == ScaleByJitter(d, b.jitter_factor)
        jitter == IF jitter_range > 0 THEN (a * JitterStep) % jitter_range ELSE 0
    IN Min(d + jitter, b.max_delay)

\* A delay_for_attempt that stops one attempt early
delay_for_attempt_stops_early(b, a) ==
    IF b.max_attempts.some /\ a >= b.max_attempts.v
    THEN None
    ELSE Some(backoff_delay(b, a))

delay_for_attempt(b, a) ==
    IF b.max_attempts.some /\ a > b.max_attempts.v
    THEN None
    ELSE Some(backoff_delay(b, a))

\* A should_continue that gives up one failure early
should_continue_gives_up_early(b, attempts) ==
    IF b.max_attempts.some THEN attempts + 1 < b.max_attempts.v ELSE TRUE

\* A should_continue that does not look at the limit
should_continue_ignores_limit(b, attempts) == TRUE

\* A should_continue that allows one attempt too many
should_continue_one_more(b, attempts) ==
    IF b.max_attempts.some THEN attempts <= b.max_attempts.v ELSE TRUE

should_continue(b, attempts) ==
    IF b.max_attempts.some THEN attempts < b.max_attempts.v ELSE TRUE

----------------------------------------------------------------------------
\* ConnectionHealth (resilience.rs)

ConnectionHealthNew(b) ==
    [consecutive_failures |-> 0,
     total_connections |-> 0,
     total_reconnects |-> 0,
     backoff |-> b,
     last_error |-> NoError]

\* A record_success that counts every success as a reconnect
record_success_counts_every_reconnect(s) ==
    [s EXCEPT !.total_reconnects = @ + 1,
              !.consecutive_failures = 0,
              !.total_connections = @ + 1,
              !.last_error = NoError]

record_success(s) ==
    [s EXCEPT !.total_reconnects =
                  IF s.consecutive_failures > 0 THEN @ + 1 ELSE @,
              !.consecutive_failures = 0,
              !.total_connections = @ + 1,
              !.last_error = NoError]

record_failure(s, error) ==
    [s EXCEPT !.consecutive_failures = @ + 1,
              !.last_error = error]

next_reconnect_delay(s) == delay_for_attempt(s.backoff, s.consecutive_failures)

should_reconnect(s) == should_continue(s.backoff, s.consecutive_failures)

is_healthy(s) == s.consecutive_failures = 0

----------------------------------------------------------------------------
\* Strings are sequences of one-character strings; a topic or pattern segment
\* is such a sequence too.

\* str::split('/') from position i on, cur being the segment read so far
RECURSIVE SplitFrom(_, _, _)
SplitFrom(s, i, cur) ==
    IF i > Len(s)
    THEN <<cur>>
    ELSE IF s[i] = "/"
         THEN <<cur>> \o SplitFrom(s, i + 1, <<>>)
         ELSE SplitFrom(s, i + 1, Append(cur, s[i]))

\* s.split('/').collect(): the empty string gives one empty segment
split(s) == SplitFrom(s, 1, <<>>)

----------------------------------------------------------------------------
\* state/metric_tracker.rs: topic_matches.

\* A loop that only asks for the pattern to be used up
MatchLoop_pattern_consumed(pattern_parts, topic_parts, pi, ti) ==
    LET RECURSIVE Go(_, _)
        Go(i, j) ==
            IF i < Len(pattern_parts) /\ j < Len(topic_parts)
            THEN LET p == pattern_parts[i + 1] IN
                 IF p = <<"#">> THEN TRUE
                 ELSE IF p = <<"+">> THEN Go(i + 1, j + 1)
                 ELSE IF p = topic_parts[j + 1] THEN Go(i + 1, j + 1)
                 ELSE FALSE
            ELSE i = Len(pattern_parts)
    IN Go(pi, ti)

\* the while loop of topic_matches from the cursors pi, ti on (0-based), and
\* the test after it
RECURSIVE MatchLoop(_, _, _, _)
MatchLoop(pattern_parts, topic_parts, pi, ti) ==
    IF pi < Len(pattern_parts) /\ ti < Len(topic_parts)
    THEN LET p == pattern_parts[pi + 1] IN
         IF p = <<"#">> THEN TRUE
         ELSE IF p = <<"+">>
              THEN MatchLoop(pattern_parts, topic_parts, pi + 1, ti + 1)
         ELSE IF p = topic_parts[ti + 1]
              THEN MatchLoop(pattern_parts, topic_parts, pi + 1, ti + 1)
         ELSE FALSE
    ELSE pi = Len(pattern_parts) /\ ti = Len(topic_parts)

\* A matcher whose bare "#" asks for a topic that is not empty
topic_matches_hash_needs_topic(pattern, topic) ==
    IF pattern = <<"#">>
    THEN topic # <<>>
    ELSE MatchLoop(split(pattern), split(topic), 0, 0)

topic_matches(pattern, topic) ==
    IF pattern = <<"#">>
    THEN TRUE
    ELSE MatchLoop(split(pattern), split(topic), 0, 0)

----------------------------------------------------------------------------
\* state/message_buffer.rs: the bounded per-topic message log.  A HashMap is
\* a function whose domain is the set of keys present; an Option<&MqttMessage>
\* is a sequence of no or one message.

EmptyMap == [k \in {} |-> 0]

MapPut(m, k, v) == [x \in DOMAIN m \cup {k} |-> IF x = k THEN v ELSE m[x]]

MapRemove(m, k) == [x \in DOMAIN m \ {k} |-> m[x]]

RECURSIVE Reverse(_)
Reverse(q) == IF q = <<>> THEN <<>> ELSE Append(Reverse(Tail(q)), Head(q))

\* VecDeque::pop_front: nothing is removed from an empty queue
pop_front(q) == IF q = <<>> THEN <<>> ELSE Tail(q)

MessageBufferNew(max_per_topic) ==
    [buffers |-> EmptyMap, max_per_topic |-> max_per_topic, total_stored |-> 0]

\* A push that makes room by dropping the newest stored message
push_evicts_newest(mb, message) ==
    LET topic == message.topic
        buffer == IF topic \in DOMAIN mb.buffers THEN mb.buffers[topic] ELSE <<>>
        full == Len(buffer) >= mb.max_per_topic
        kept == IF full /\ buffer # <<>>
                THEN SubSeq(buffer, 1, Len(buffer) - 1) ELSE buffer
        total == IF full THEN saturating_sub(mb.total_stored, 1)
                 ELSE mb.total_stored
    IN [mb EXCEPT !.buffers = MapPut(@, topic, Append(kept, message)),
                  !.total_stored = total + 1]

push(mb, message) ==
    LET topic == message.topic
        buffer == IF topic \in DOMAIN mb.buffers THEN mb.buffers[topic] ELSE <<>>
        full == Len(buffer) >= mb.max_per_topic
        kept == IF full THEN pop_front(buffer) ELSE buffer
        total == IF full THEN saturating_sub(mb.total_stored, 1)
                 ELSE mb.total_stored
    IN [mb EXCEPT !.buffers = MapPut(@, topic, Append(kept, message)),
                  !.total_stored = total + 1]

get_messages(mb, topic) ==
    IF topic \in DOMAIN mb.buffers THEN Reverse(mb.buffers[topic]) ELSE <<>>

get_latest(mb, topic) ==
    IF topic \in DOMAIN mb.buffers /\ mb.buffers[topic] # <<>>
    THEN <<mb.buffers[topic][Len(mb.buffers[topic])]>>
    ELSE <<>>

count_for_topic(mb, topic) ==
    IF topic \in DOMAIN mb.buffers THEN Len(mb.buffers[topic]) ELSE 0

total_stored(mb) == mb.total_stored

buffer_clear(mb) == [mb EXCEPT !.buffers = EmptyMap, !.total_stored = 0]

clear_topic(mb, topic) ==
    IF topic \in DOMAIN mb.buffers
    THEN [mb EXCEPT !.buffers = MapRemove(@, topic),
                    !.total_stored =
                        saturating_sub(@, Len(mb.buffers[topic]))]
    ELSE mb

----------------------------------------------------------------------------
\* state/topic_tree.rs: the topic index.  The trie is the function from the
\* path of a node (the segments from the root down, <<>> for the root) to the
\* node's fields; a node's children are the paths one segment longer.

TopicNodeDefault ==
    [is_topic |-> FALSE, message_count |-> 0, bytes_received |-> 0,
     last_message_time |-> None]

TopicTreeNew == [nodes |-> MapPut(EmptyMap, <<>>, TopicNodeDefault),
                 total_topics |-> 0]

\* An insert that counts every call
insert_counts_every_call(tree, topic, payload_size, time) ==
    LET segments == split(topic)
        walk == {SubSeq(segments, 1, k) : k \in 1..Len(segments)}
        nodes == [p \in DOMAIN tree.nodes \cup walk |->
                    IF p \in DOMAIN tree.nodes THEN tree.nodes[p]
                    ELSE TopicNodeDefault]
        current == nodes[segments]
    IN [nodes |-> [nodes EXCEPT ![segments] =
                     [is_topic |-> TRUE,
                      message_count |-> current.message_count + 1,
                      bytes_received |-> current.bytes_received + payload_size,
                      last_message_time |-> Some(time)]],
        total_topics |-> tree.total_topics + 1]

insert(tree, topic, payload_size, time) ==
    LET segments == split(topic)
        walk == {SubSeq(segments, 1, k) : k \in 1..Len(segments)}
        nodes == [p \in DOMAIN tree.nodes \cup walk |->
                    IF p \in DOMAIN tree.nodes THEN tree.nodes[p]
                    ELSE TopicNodeDefault]
        current == nodes[segments]
    IN [nodes |-> [nodes EXCEPT ![segments] =
                     [is_topic |-> TRUE,
                      message_count |-> current.message_count + 1,
                      bytes_received |-> current.bytes_received + payload_size,
                      last_message_time |-> Some(time)]],
        total_topics |-> IF current.is_topic THEN tree.total_topics
                         ELSE tree.total_topics + 1]

topic_count(tree) == tree.total_topics

get_topic_stats(tree, topic) ==
    LET segments == split(topic) IN
    IF segments \in DOMAIN tree.nodes /\ tree.nodes[segments].is_topic
    THEN <<tree.nodes[segments]>>
    ELSE <<>>

tree_clear(tree) == TopicTreeNew

\* the bytes of the characters the specifications use
CharCode(c) ==
    CASE c = "#" -> 35 [] c = "+" -> 43 [] c = "/" -> 47
      [] c = "A" -> 65 [] c = "B" -> 66
      [] c = "a" -> 97 [] c = "b" -> 98 [] c = "c" -> 99

\* String's Ord: byte by byte, a proper prefix first
RECURSIVE StrLess(_, _)
StrLess(s, t) ==
    IF s = <<>> THEN t # <<>>
    ELSE IF t = <<>> THEN FALSE
    ELSE IF s[1] = t[1] THEN StrLess(Tail(s), Tail(t))
    ELSE CharCode(s[1]) < CharCode(t[1])

\* str::to_lowercase
to_lowercase(s) ==
    [i \in 1..Len(s) |-> IF s[i] = "A" THEN "a"
                         ELSE IF s[i] = "B" THEN "b" ELSE s[i]]

\* str::contains: the empty string is contained in every string
contains(s, sub) ==
    \E i \in 0..(Len(s) - Len(sub)) : SubSeq(s, i + 1, i + Len(sub)) = sub

\* node.children of the node at a path, as the paths of the children
children(tree, node) ==
    {p \in DOMAIN tree.nodes :
        Len(p) = Len(node) + 1 /\ SubSeq(p, 1, Len(node)) = node}

\* the segment a child is keyed by
segment_of(child) == child[Len(child)]

\* full_path: the segment alone when path.is_empty(), else path/segment
full_path_of(path, segment) ==
    IF path = <<>> THEN segment ELSE path \o <<"/">> \o segment

\* children.sort_by(|a, b| a.0.cmp(b.0))
RECURSIVE sort_by_segment(_)
sort_by_segment(S) ==
    IF S = {} THEN <<>>
    ELSE LET first == CHOOSE x \in S : \A y \in S \ {x} :
                          StrLess(segment_of(x), segment_of(y))
         IN <<first>> \o sort_by_segment(S \ {first})

\* the TopicInfos of the children of node, each followed by those below it
\* when its full path is in expanded
RECURSIVE collect_visible(_, _, _, _, _)
collect_visible(tree, node, path, depth, expanded) ==
    LET kids == sort_by_segment(children(tree, node))
        RECURSIVE Loop(_)
        Loop(i) ==
            IF i > Len(kids) THEN <<>>
            ELSE LET child == kids[i]
                     full_path == full_path_of(path, segment_of(child))
                     is_expanded == full_path \in expanded
                 IN <<[full_path |-> full_path,
                       segment |-> segment_of(child),
                       depth |-> depth,
                       is_expanded |-> is_expanded,
                       has_children |-> children(tree, child) # {},
                       message_count |-> tree.nodes[child].message_count,
                       bytes_received |-> tree.nodes[child].bytes_received,
                       last_message_time |->
                           tree.nodes[child].last_message_time]>>
                    \o (IF is_expanded
                        THEN collect_visible(tree, child, full_path,
                                             depth + 1, expanded)
                        ELSE <<>>)
                    \o Loop(i + 1)
    IN Loop(1)

get_visible_topics(tree, expanded) ==
    collect_visible(tree, <<>>, <<>>, 0, expanded)

\* The results search_recursive can push below node: a HashMap iterates its
\* children in an order of its own, so every order is one outcome.
RECURSIVE search_recursive(_, _, _, _)
search_recursive(tree, node, path, lowered) ==
    LET Visit(child) ==
            LET full_path == full_path_of(path, segment_of(child))
                hit == IF contains(to_lowercase(full_path), lowered)
                          /\ tree.nodes[child].is_topic
                       THEN <<full_path>> ELSE <<>>
            IN {hit \o below :
                  below \in search_recursive(tree, child, full_path, lowered)}
        RECURSIVE Orders(_)
        Orders(S) ==
            IF S = {} THEN {<<>>}
            ELSE UNION {{v \o rest : v \in Visit(c), rest \in Orders(S \ {c})} :
                          c \in S}
    IN Orders(children(tree, node))

\* the sequences search(pattern) can return
search(tree, pattern) ==
    search_recursive(tree, <<>>, <<>>, to_lowercase(pattern))

----------------------------------------------------------------------------
\* state/stats.rs: the traffic statistics.  Instants are whole seconds since
\* the origin of the monotonic clock.

StatsNew(window_secs, time) ==
    [window |-> window_secs, message_times |-> <<>>, message_sizes |-> <<>>,
     total_messages |-> 0, total_bytes |-> 0, start_time |-> time]

\* now.checked_sub(window).unwrap_or(now): the subtraction fails where the
\* result would precede the origin of the clock (an Instant that counts up
\* from its origin, as on Windows; where an Instant is a signed timespec the
\* subtraction succeeds and the second branch is never taken)
Cutoff(st, time) == IF time >= st.window THEN time - st.window ELSE time

RECURSIVE prune_old_entries(_, _)
prune_old_entries(st, time) ==
    IF st.message_times # <<>> /\ Head(st.message_times) < Cutoff(st, time)
    THEN prune_old_entries([st EXCEPT !.message_times = Tail(@),
                                      !.message_sizes = Tail(@)], time)
    ELSE st

\* A record_message whose totals count the window
record_message_counts_window(st, payload_size, time) ==
    LET pruned == prune_old_entries(
                      [st EXCEPT !.message_times = Append(@, time),
                                 !.message_sizes = Append(@, payload_size)],
                      time)
    IN [pruned EXCEPT !.total_messages = Len(pruned.message_times),
                      !.total_bytes = @ + payload_size]

record_message(st, payload_size, time) ==
    prune_old_entries(
        [st EXCEPT !.message_times = Append(@, time),
                   !.message_sizes = Append(@, payload_size),
                   !.total_messages = @ + 1,
                   !.total_bytes = @ + payload_size], time)

\* A window that leaves out the arrival at the cutoff itself
InWindow_after_cutoff(st, time) ==
    {i \in 1..Len(st.message_times) : st.message_times[i] > Cutoff(st, time)}

\* the entries of the window a rate counts at an instant
InWindow(st, time) ==
    {i \in 1..Len(st.message_times) : st.message_times[i] >= Cutoff(st, time)}

RECURSIVE SumOver(_, _)
SumOver(f, S) ==
    IF S = {} THEN 0
    ELSE LET i == CHOOSE i \in S : TRUE IN f[i] + SumOver(f, S \ {i})

\* A rate is the quotient num / den of the f64 division.
Rate(n, window_secs) == [num |-> n, den |-> window_secs]

messages_per_second(st, time) ==
    IF st.message_times = <<>> THEN Rate(0, 1)
    ELSE Rate(Cardinality(InWindow(st, time)), st.window)

bytes_per_second(st, time) ==
    IF st.message_times = <<>> THEN Rate(0, 1)
    ELSE Rate(SumOver(st.message_sizes, InWindow(st, time)), st.window)

stats_reset(st, time) ==
    [st EXCEPT !.message_times = <<>>, !.message_sizes = <<>>,
               !.total_messages = 0, !.total_bytes = 0,
               !.start_time = time]

----------------------------------------------------------------------------
\* state/metric_tracker.rs: the tracked metrics.  An f64 is the integer it
\* holds, or the quotient of two integers; the values drawn are integers
\* far below 2^31, so every sum is exact.

F64_MAX == 2147483647

F64_MIN == -2147483647

\* a serde_json::Value
JNumber(x) == [kind |-> "Number", n |-> x, s |-> <<>>, fields |-> <<>>]
JString(str) == [kind |-> "String", n |-> 0, s |-> str, fields |-> <<>>]
JObject(map) == [kind |-> "Object", n |-> 0, s |-> <<>>, fields |-> map]

\* a payload and what serde_json::from_slice makes of it
JsonPayload(value) == [is_json |-> TRUE, json |-> value]
NotJsonPayload == [is_json |-> FALSE, json |-> JString(<<>>)]

from_slice(payload) == IF payload.is_json THEN <<payload.json>> ELSE <<>>

Digits == <<"0", "1", "2", "3", "4", "5", "6", "7", "8", "9">>

RECURSIVE DigitsValue(_)
DigitsValue(str) ==
    IF str = <<>> THEN 0
    ELSE 10 * DigitsValue(SubSeq(str, 1, Len(str) - 1))
         + (CHOOSE k \in 0..9 : Digits[k + 1] = str[Len(str)])

\* str::parse::<f64>().ok() of the strings drawn: a string of digits is its
\* value, any other is no number
parse_f64(str) ==
    IF str # <<>> /\ \A i \in 1..Len(str) : \E k \in 1..10 : Digits[k] = str[i]
    THEN Some(DigitsValue(str))
    ELSE None

RECURSIVE SplitDotsFrom(_, _, _)
SplitDotsFrom(str, i, cur) ==
    IF i > Len(str)
    THEN <<cur>>
    ELSE IF str[i] = "."
         THEN <<cur>> \o SplitDotsFrom(str, i + 1, <<>>)
         ELSE SplitDotsFrom(str, i + 1, Append(cur, str[i]))

\* path.split('.').collect()
split_dots(str) == SplitDotsFrom(str, 1, <<>>)

\* Value::get(key): a member of an object, nothing of any other value
json_get(value, key) ==
    IF value.kind = "Object" /\ key \in DOMAIN value.fields
    THEN <<value.fields[key]>>
    ELSE <<>>

RECURSIVE WalkPath(_, _, _)
WalkPath(current, parts, i) ==
    IF i > Len(parts) THEN <<current>>
    ELSE LET next == json_get(current, parts[i]) IN
         IF next = <<>> THEN <<>> ELSE WalkPath(next[1], parts, i + 1)

extract_numeric(json, path) ==
    LET found == WalkPath(json, split_dots(path), 1) IN
    IF found = <<>> THEN None
    ELSE CASE found[1].kind = "Number" -> Some(found[1].n)
           [] found[1].kind = "String" -> parse_f64(found[1].s)
           [] OTHER -> None

TrackedMetricNew(label, topic_pattern, field_path) ==
    [label |-> label, topic_pattern |-> topic_pattern,
     field_path |-> field_path, data |-> <<>>,
     min |-> F64_MAX, max |-> F64_MIN, sum |-> 0, count |-> 0]

\* while self.data.len() > max_points { self.data.pop_front(); }
RECURSIVE pop_front_while_over(_, _)
pop_front_while_over(data, max_points) ==
    IF Len(data) > max_points
    THEN pop_front_while_over(Tail(data), max_points)
    ELSE data

RECURSIVE LeastOf(_)
LeastOf(values) ==
    IF Len(values) = 1 THEN values[1]
    ELSE Min(values[1], LeastOf(Tail(values)))

RECURSIVE GreatestOf(_)
GreatestOf(values) ==
    IF Len(values) = 1 THEN values[1]
    ELSE Max(values[1], GreatestOf(Tail(values)))

\* A record whose min and max are those of the samples it still holds
record_minmax_of_series(metric, value, max_points, time) ==
    LET data == pop_front_while_over(
                    Append(metric.data, [time |-> time, value |-> value]),
                    max_points)
        held == [i \in 1..Len(data) |-> data[i].value]
    IN [metric EXCEPT !.data = data,
                      !.min = IF held = <<>> THEN @ ELSE LeastOf(held),
                      !.max = IF held = <<>> THEN @ ELSE GreatestOf(held),
                      !.sum = @ + value,
                      !.count = @ + 1]

\* A record that evicts only when the series is one over its cap
record_keeps_one_more(metric, value, max_points, time) ==
    [metric EXCEPT !.data = pop_front_while_over(
                                Append(@, [time |-> time, value |-> value]),
                                max_points + 1),
                   !.min = Min(@, value),
                   !.max = Max(@, value),
                   !.sum = @ + value,
                   !.count = @ + 1]

record(metric, value, max_points, time) ==
    [metric EXCEPT !.data = pop_front_while_over(
                                Append(@, [time |-> time, value |-> value]),
                                max_points),
                   !.min = Min(@, value),
                   !.max = Max(@, value),
                   !.sum = @ + value,
                   !.count = @ + 1]

latest(metric) ==
    IF metric.data = <<>> THEN None
    ELSE Some(metric.data[Len(metric.data)].value)

\* the quotient num / den of an f64 division
Fraction(n, d) == [num |-> n, den |-> d]

\* A sparkline that leaves out take(width)
sparkline_data_takes_all(metric, width) ==
    IF metric.data = <<>> \/ metric.max <= metric.min
    THEN [i \in 1..Max(Min(width, Len(metric.data)), 1) |-> Fraction(0, 1)]
    ELSE LET range == metric.max - metric.min
             step == IF Len(metric.data) <= width THEN 1
                     ELSE Len(metric.data) \div width
             stepped == (Len(metric.data) + Max(step, 1) - 1)
                            \div Max(step, 1)
         IN [i \in 1..stepped |->
               Fraction(metric.data[1 + (i - 1) * Max(step, 1)].value
                            - metric.min, range)]

sparkline_data(metric, width) ==
    IF metric.data = <<>> \/ metric.max <= metric.min
    THEN [i \in 1..Max(Min(width, Len(metric.data)), 1) |-> Fraction(0, 1)]
    ELSE LET range == metric.max - metric.min
             step == IF Len(metric.data) <= width THEN 1
                     ELSE Len(metric.data) \div width
             \* the elements step_by(step.max(1)) yields
             stepped == (Len(metric.data) + Max(step, 1) - 1)
                            \div Max(step, 1)
         IN [i \in 1..Min(width, stepped) |->
               Fraction(metric.data[1 + (i - 1) * Max(step, 1)].value
                            - metric.min, range)]

MetricTrackerNew(max_points) == [metrics |-> EmptyMap, max_points |-> max_points]

track(mt, label, topic_pattern, field_path) ==
    [mt EXCEPT !.metrics =
        MapPut(@, label, TrackedMetricNew(label, topic_pattern, field_path))]

untrack(mt, label) == [mt EXCEPT !.metrics = MapRemove(@, label)]

\* A process_message that returns at the first matching metric it cannot
\* resolve, that metric being the first one visited
process_message_stops_at_skip(mt, topic, payload, time) ==
    LET parsed == from_slice(payload) IN
    IF parsed = <<>> THEN mt
    ELSE IF \E l \in DOMAIN mt.metrics :
               /\ topic_matches(mt.metrics[l].topic_pattern, topic)
               /\ ~extract_numeric(parsed[1], mt.metrics[l].field_path).some
         THEN mt
    ELSE [mt EXCEPT !.metrics =
            [l \in DOMAIN mt.metrics |->
               LET metric == mt.metrics[l]
                   value == extract_numeric(parsed[1], metric.field_path)
               IN IF topic_matches(metric.topic_pattern, topic) /\ value.some
                  THEN record(metric, value.v, mt.max_points, time)
                  ELSE metric]]

\* every metric is visited once, in any order: what one metric becomes does
\* not depend on the others
process_message(mt, topic, payload, time) ==
    LET parsed == from_slice(payload) IN
    IF parsed = <<>> THEN mt
    ELSE [mt EXCEPT !.metrics =
            [l \in DOMAIN mt.metrics |->
               LET metric == mt.metrics[l]
                   value == extract_numeric(parsed[1], metric.field_path)
               IN IF topic_matches(metric.topic_pattern, topic) /\ value.some
                  THEN record(metric, value.v, mt.max_points, time)
                  ELSE metric]]

get_metric(mt, label) ==
    IF label \in DOMAIN mt.metrics THEN <<mt.metrics[label]>> ELSE <<>>

----------------------------------------------------------------------------
\* state/device_tracker.rs: the device health tracker.  Instants are whole
\* seconds; the clock reads of one call give the same instant.

RateWindowSecs == 60

StaleThresholdSecs == 300

DeviceTrackerNew ==
    [devices |-> EmptyMap, rate_window |-> RateWindowSecs,
     healthy_threshold |-> Fraction(1, 1),
     warning_threshold |-> Fraction(1, 10)]

DeviceHealthNew(device_id, time) ==
    [device_id |-> device_id, device_type |-> <<>>, message_count |-> 0,
     last_seen |-> time, recent_messages |-> <<>>, status |-> "Unknown",
     last_payload_size |-> 0, topics |-> <<>>]

\* A cutoff that is the present instant
WindowCutoff_at_now(window, time) == time

\* now.checked_sub(window).unwrap_or(now)
WindowCutoff(window, time) == IF time >= window THEN time - window ELSE time

\* count / (window / 60 s), 0 for an empty window
messages_per_minute(device, window, time) ==
    LET cutoff == WindowCutoff(window, time)
        count == Cardinality({i \in 1..Len(device.recent_messages) :
                                 device.recent_messages[i] > cutoff})
    IN IF window > 0 THEN Fraction(count * 60, window) ELSE Fraction(0, 1)

\* a >= b for quotients with positive denominators
AtLeast(a, b) == a.num * b.den >= b.num * a.den

\* A classification that is Stale from the threshold on
device_status_stale_at_threshold(device, dt, time) ==
    LET rate == messages_per_minute(device, dt.rate_window, time) IN
    IF time - device.last_seen >= StaleThresholdSecs THEN "Stale"
    ELSE IF AtLeast(rate, dt.healthy_threshold) THEN "Healthy"
    ELSE IF AtLeast(rate, dt.warning_threshold) THEN "Warning"
    ELSE IF device.message_count > 0 THEN "Warning"
    ELSE "Unknown"

\* the if-chain that process_message and update_device_status both end with
device_status(device, dt, time) ==
    LET rate == messages_per_minute(device, dt.rate_window, time) IN
    IF time - device.last_seen > StaleThresholdSecs THEN "Stale"
    ELSE IF AtLeast(rate, dt.healthy_threshold) THEN "Healthy"
    ELSE IF AtLeast(rate, dt.warning_threshold) THEN "Warning"
    ELSE IF device.message_count > 0 THEN "Warning"
    ELSE "Unknown"

Telemetry == <<"t", "e", "l", "e", "m", "e", "t", "r", "y">>

Devices == <<"d", "e", "v", "i", "c", "e", "s">>

Sites == <<"s", "i", "t", "e", "s">>

\* A rule for sites that takes the segment of the site
extract_device_id_takes_site(topic) ==
    LET parts == split(topic) IN
    IF Len(parts) >= 2 /\ parts[1] = Telemetry THEN <<parts[2]>>
    ELSE IF Len(parts) >= 2 /\ parts[1] = Devices THEN <<parts[2]>>
    ELSE IF Len(parts) >= 4 /\ parts[1] = Sites /\ parts[3] = Devices
         THEN <<parts[2]>>
    ELSE <<>>

\* the device id as <<id>>, <<>> for a topic of no device
extract_device_id(topic) ==
    LET parts == split(topic) IN
    IF Len(parts) >= 2 /\ parts[1] = Telemetry THEN <<parts[2]>>
    ELSE IF Len(parts) >= 2 /\ parts[1] = Devices THEN <<parts[2]>>
    ELSE IF Len(parts) >= 4 /\ parts[1] = Sites /\ parts[3] = Devices
         THEN <<parts[4]>>
    ELSE <<>>

extract_device_type(topic) ==
    LET parts == split(topic) IN
    IF Len(parts) >= 3 /\ parts[1] = Telemetry THEN <<parts[3]>> ELSE <<>>

device_process_message(dt, topic, payload_size, time) ==
    LET id == extract_device_id(topic) IN
    IF id = <<>> THEN dt
    ELSE LET device_id == id[1]
             entry == IF device_id \in DOMAIN dt.devices
                      THEN dt.devices[device_id]
                      ELSE DeviceHealthNew(device_id, time)
             cutoff == WindowCutoff(dt.rate_window, time)
             updated ==
                 [entry EXCEPT
                    !.message_count = @ + 1,
                    !.last_seen = time,
                    !.last_payload_size = payload_size,
                    !.recent_messages =
                        SelectSeq(Append(@, time), LAMBDA t : t > cutoff),
                    !.device_type =
                        IF @ = <<>> THEN extract_device_type(topic) ELSE @,
                    !.topics =
                        IF \E i \in 1..Len(@) : @[i] = topic THEN @
                        ELSE Append(@, topic)]
         IN [dt EXCEPT !.devices =
                MapPut(@, device_id,
                       [updated EXCEPT
                          !.status = device_status(updated, dt, time)])]

update_device_status(dt, device_id, time) ==
    IF device_id \in DOMAIN dt.devices
    THEN [dt EXCEPT !.devices[device_id].status =
                        device_status(dt.devices[device_id], dt, time)]
    ELSE dt

\* every device is updated once; one update does not read another device
update_all_statuses(dt, time) ==
    [dt EXCEPT !.devices =
        [id \in DOMAIN dt.devices |->
            update_device_status(dt, id, time).devices[id]]]

device_count(dt) == Cardinality(DOMAIN dt.devices)

\* (healthy, warning, stale, unknown)
count_by_status(dt) ==
    LET Count(status) ==
            Cardinality({id \in DOMAIN dt.devices :
                            dt.devices[id].status = status})
    IN <<Count("Healthy"), Count("Warning"), Count("Stale"), Count("Unknown")>>

\* The orders get_devices can return: most recently seen first, devices seen
\* at the same instant in the order the HashMap yields them.
get_devices(dt) ==
    LET ids == DOMAIN dt.devices
        n == Cardinality(ids)
    IN {order \in [1..n -> ids] :
          /\ \A i, j \in 1..n : i # j => order[i] # order[j]
          /\ \A i, j \in 1..n :
                i < j => dt.devices[order[i]].last_seen
                           >= dt.devices[order[j]].last_seen}

----------------------------------------------------------------------------
\* state/schema_tracker.rs: the schema tracker.  A Schema is its map from
\* field path to FieldType; a SchemaChange is a record, old_type and new_type
\* being <<>> or <<type>>.

JNull == [kind |-> "Null", n |-> 0, s |-> <<>>, fields |-> <<>>]
JBool(b) == [kind |-> "Bool", n |-> 0, s |-> <<>>, fields |-> b]
JArray(items) == [kind |-> "Array", n |-> 0, s |-> <<>>, fields |-> items]

DefaultMaxChanges == 50

SchemaTrackerNew ==
    [schemas |-> EmptyMap, changes |-> <<>>, max_changes |-> DefaultMaxChanges]

\* a new tracker whose field max_changes is cap: the runs in which the
\* history fills up take a cap below the 50 of SchemaTracker::new()
SchemaTrackerOfSize(cap) == [SchemaTrackerNew EXCEPT !.max_changes = cap]

FieldTypeOf(value) ==
    CASE value.kind = "Null" -> "Null"
      [] value.kind = "Bool" -> "Boolean"
      [] value.kind = "Number" -> "Number"
      [] value.kind = "String" -> "String"
      [] value.kind = "Array" -> "Array"
      [] value.kind = "Object" -> "Object"

\* fields.insert for every entry of more: an entry of more replaces one of
\* the same path
InsertAll(fields, more) ==
    [path \in DOMAIN fields \cup DOMAIN more |->
        IF path \in DOMAIN more THEN more[path] ELSE fields[path]]

\* the entries extract_fields inserts for value under prefix.  The field
\* paths of one payload differ, so the order in which the keys of an object
\* are visited does not show in the map.
RECURSIVE extract_fields(_, _)
extract_fields(value, prefix) ==
    LET own == IF prefix # <<>>
               THEN MapPut(EmptyMap, prefix, FieldTypeOf(value))
               ELSE EmptyMap
        RECURSIVE OfKeys(_)
        OfKeys(keys) ==
            IF keys = {} THEN EmptyMap
            ELSE LET key == CHOOSE k \in keys : TRUE
                     field_prefix == IF prefix = <<>> THEN key
                                     ELSE prefix \o <<".">> \o key
                 IN InsertAll(OfKeys(keys \ {key}),
                              extract_fields(value.fields[key], field_prefix))
    IN CASE value.kind = "Array" ->
              IF value.fields # <<>>
              THEN InsertAll(own, extract_fields(value.fields[1],
                                                 prefix \o <<"[", "0", "]">>))
              ELSE own
         [] value.kind = "Object" -> InsertAll(own, OfKeys(DOMAIN value.fields))
         [] OTHER -> own

from_json(value) == extract_fields(value, <<>>)

\* all the orders in which the elements of S can be visited
Orderings(S) ==
    {order \in [1..Cardinality(S) -> S] :
        \A i, j \in 1..Cardinality(S) : i # j => order[i] # order[j]}

\* A comparison that reports a field of another type as removed and added
compare_schemas_no_type_change(topic, old, new, time) ==
    LET added == {f \in DOMAIN new : f \notin DOMAIN old \/ old[f] # new[f]}
        removed == {f \in DOMAIN old : f \notin DOMAIN new \/ old[f] # new[f]}
        Added(f) == [topic |-> topic, change_type |-> "FieldAdded",
                     field_path |-> f, old_type |-> <<>>,
                     new_type |-> <<new[f]>>, timestamp |-> time]
        Removed(f) == [topic |-> topic, change_type |-> "FieldRemoved",
                       field_path |-> f, old_type |-> <<old[f]>>,
                       new_type |-> <<>>, timestamp |-> time]
    IN {[i \in 1..Len(a) |-> Added(a[i])] \o [i \in 1..Len(r) |-> Removed(r[i])] :
           a \in Orderings(added), r \in Orderings(removed)}

\* The results compare_schemas can give: the added fields, the removed
\* fields, the fields of another type, each group in the order its HashSet
\* yields.
compare_schemas(topic, old, new, time) ==
    LET added == DOMAIN new \ DOMAIN old
        removed == DOMAIN old \ DOMAIN new
        changed == {f \in DOMAIN old \cap DOMAIN new : old[f] # new[f]}
        Added(f) == [topic |-> topic, change_type |-> "FieldAdded",
                     field_path |-> f, old_type |-> <<>>,
                     new_type |-> <<new[f]>>, timestamp |-> time]
        Removed(f) == [topic |-> topic, change_type |-> "FieldRemoved",
                       field_path |-> f, old_type |-> <<old[f]>>,
                       new_type |-> <<>>, timestamp |-> time]
        Changed(f) == [topic |-> topic, change_type |-> "TypeChanged",
                       field_path |-> f, old_type |-> <<old[f]>>,
                       new_type |-> <<new[f]>>, timestamp |-> time]
    IN {[i \in 1..Len(a) |-> Added(a[i])] \o [i \in 1..Len(r) |-> Removed(r[i])]
           \o [i \in 1..Len(c) |-> Changed(c[i])] :
           a \in Orderings(added), r \in Orderings(removed),
           c \in Orderings(changed)}

\* A history that drops the new change when it is full
record_changes_drops_newest(changes, detected, max_changes) ==
    SubSeq(changes \o detected, 1, Min(Len(changes \o detected), max_changes))

\* for change in &detected_changes: remove(0) when full, then push
RECURSIVE record_changes(_, _, _)
record_changes(changes, detected, max_changes) ==
    IF detected = <<>> THEN changes
    ELSE record_changes(
             Append(IF Len(changes) >= max_changes
                    THEN Tail(changes) ELSE changes, detected[1]),
             Tail(detected), max_changes)

\* A tracker that forgets the schema of the topic at a payload that is no JSON
schema_process_message_forgets(st, topic, payload, time) ==
    LET json == from_slice(payload) IN
    IF json = <<>>
    THEN {[tracker |-> [st EXCEPT !.schemas = MapRemove(@, topic)],
           returned |-> <<>>]}
    ELSE LET new_schema == from_json(json[1]) IN
         IF topic \in DOMAIN st.schemas
         THEN {[tracker |->
                  [st EXCEPT
                     !.changes = record_changes(@, detected, st.max_changes),
                     !.schemas = MapPut(@, topic, new_schema)],
                returned |-> detected] :
                  detected \in compare_schemas(topic, st.schemas[topic],
                                               new_schema, time)}
         ELSE {[tracker |-> [st EXCEPT !.schemas = MapPut(@, topic, new_schema)],
                returned |-> <<>>]}

\* The outcomes of SchemaTracker::process_message: the tracker after the call
\* and the changes returned.
schema_process_message(st, topic, payload, time) ==
    LET json == from_slice(payload) IN
    IF json = <<>> THEN {[tracker |-> st, returned |-> <<>>]}
    ELSE LET new_schema == from_json(json[1]) IN
         IF topic \in DOMAIN st.schemas
         THEN {[tracker |->
                  [st EXCEPT
                     !.changes = record_changes(@, detected, st.max_changes),
                     !.schemas = MapPut(@, topic, new_schema)],
                returned |-> detected] :
                  detected \in compare_schemas(topic, st.schemas[topic],
                                               new_schema, time)}
         ELSE {[tracker |-> [st EXCEPT !.schemas = MapPut(@, topic, new_schema)],
                returned |-> <<>>]}

----------------------------------------------------------------------------
\* i64 arithmetic.  An integer is a sign and a magnitude of four limbs in
\* base 10^6, most significant first: 9223372036854775807 is
\* <<9, 223372, 36854, 775807>>.  Magnitudes stay below 10^24.

LimbBase == 1000 * 1000

Wide(neg, mag) == [neg |-> neg /\ mag # <<0, 0, 0, 0>>, mag |-> mag]

WideOf(n) ==
    Wide(n < 0, LET m == IF n < 0 THEN 0 - n ELSE n
                IN <<0, 0, m \div LimbBase, m % LimbBase>>)

MagLess(x, y) ==
    \E i \in 1..4 : x[i] < y[i] /\ \A j \in 1..(i - 1) : x[j] = y[j]

MagAdd(x, y) ==
    LET s4 == x[4] + y[4]
        s3 == x[3] + y[3] + s4 \div LimbBase
        s2 == x[2] + y[2] + s3 \div LimbBase
        s1 == x[1] + y[1] + s2 \div LimbBase
    IN <<s1, s2 % LimbBase, s3 % LimbBase, s4 % LimbBase>>

\* x - y for x >= y
MagSub(x, y) ==
    LET d4 == x[4] - y[4]
        b4 == IF d4 < 0 THEN 1 ELSE 0
        d3 == x[3] - y[3] - b4
        b3 == IF d3 < 0 THEN 1 ELSE 0
        d2 == x[2] - y[2] - b3
        b2 == IF d2 < 0 THEN 1 ELSE 0
        d1 == x[1] - y[1] - b2
    IN <<d1, d2 + b2 * LimbBase, d3 + b3 * LimbBase, d4 + b4 * LimbBase>>

\* x * k for 0 <= k <= 1000
MagTimes(x, k) ==
    LET p4 == x[4] * k
        p3 == x[3] * k + p4 \div LimbBase
        p2 == x[2] * k + p3 \div LimbBase
        p1 == x[1] * k + p2 \div LimbBase
    IN <<p1, p2 % LimbBase, p3 % LimbBase, p4 % LimbBase>>

WideNeg(x) == Wide(~x.neg, x.mag)

WideAdd(x, y) ==
    IF x.neg = y.neg THEN Wide(x.neg, MagAdd(x.mag, y.mag))
    ELSE IF MagLess(x.mag, y.mag) THEN Wide(y.neg, MagSub(y.mag, x.mag))
    ELSE Wide(x.neg, MagSub(x.mag, y.mag))

WideSub(x, y) == WideAdd(x, WideNeg(y))

WideTimes(x, k) == Wide(x.neg, MagTimes(x.mag, k))

WideLess(x, y) ==
    IF x.neg # y.neg THEN x.neg
    ELSE IF x.neg THEN MagLess(y.mag, x.mag)
    ELSE MagLess(x.mag, y.mag)

\* the number a value of less than 2^31 stands for
WideToInt(x) ==
    (IF x.neg THEN 0 - 1 ELSE 1) * (x.mag[3] * LimbBase + x.mag[4])

I64_MAX == Wide(FALSE, <<9, 223372, 36854, 775807>>)

I64_MIN == Wide(TRUE, <<9, 223372, 36854, 775808>>)

\* 2^64
TwoTo64 == Wide(FALSE, <<18, 446744, 73709, 551616>>)

InI64(x) == ~WideLess(x, I64_MIN) /\ ~WideLess(I64_MAX, x)

\* the i64 that is x modulo 2^64
RECURSIVE WrapI64(_)
WrapI64(x) ==
    IF WideLess(x, I64_MIN) THEN WrapI64(WideAdd(x, TwoTo64))
    ELSE IF WideLess(I64_MAX, x) THEN WrapI64(WideSub(x, TwoTo64))
    ELSE x

\* What an i64 operation with the exact result x gives: the result, and when
\* it does not fit, a panic in a build with overflow checks (debug) and the
\* wrapped result in a build without (release).
Panic == [panic |-> TRUE, value |-> WideOf(0)]

I64Result(x) ==
    IF InI64(x) THEN {[panic |-> FALSE, value |-> x]}
    ELSE {Panic, [panic |-> FALSE, value |-> WrapI64(x)]}

\* str::parse::<i64>: an optional sign, then decimal digits, in range
DigitsMag(str) ==
    LET Limb(k) == DigitsValue(SubSeq(str, Max(Len(str) - 6 * k - 5, 1),
                                      Len(str) - 6 * k))
    IN <<Limb(3), Limb(2), Limb(1), Limb(0)>>

parse_i64(str) ==
    LET signed == str # <<>> /\ str[1] \in {"-", "+"}
        digits == IF signed THEN Tail(str) ELSE str
        all_digits == /\ digits # <<>>
                      /\ Len(digits) <= 19
                      /\ \A i \in 1..Len(digits) :
                            \E k \in 1..Len(Digits) : Digits[k] = digits[i]
    IN IF ~all_digits THEN <<>>
       ELSE LET x == Wide(signed /\ str[1] = "-", DigitsMag(digits))
            IN IF InI64(x) THEN <<x>> ELSE <<>>

----------------------------------------------------------------------------
\* state/latency_tracker.rs: the latency tracker.  Durations are whole
\* milliseconds; options are <<>> and <<x>>.

DURATION_MAX == 2147483647

\* a JSON number that is an integer, with its value in full
JInteger(x) ==
    [kind |-> "Number", n |-> 0, s |-> <<>>, fields |-> <<>>, wide |-> x]

LatencyTrackerNew(max_samples) ==
    [inter_arrival_times |-> <<>>, payload_latencies |-> <<>>,
     last_message_time |-> <<>>, max_samples |-> max_samples,
     min_inter_arrival |-> DURATION_MAX, max_inter_arrival |-> 0,
     total_inter_arrival |-> 0, inter_arrival_count |-> 0,
     min_payload_latency |-> <<>>, max_payload_latency |-> <<>>,
     total_payload_latency |-> 0, payload_latency_count |-> 0]

KeyTimestamp == <<"t", "i", "m", "e", "s", "t", "a", "m", "p">>
KeyTs == <<"t", "s">>
KeyTime == <<"t", "i", "m", "e">>
KeyT == <<"t">>

\* 1_000_000_000_000
MillisFrom == Wide(FALSE, <<0, 1, 0, 0>>)

\* 3_600_000
HourMillis == Wide(FALSE, <<0, 0, 3, 600000>>)

\* json.get("timestamp").or_else(ts).or_else(time).or_else(t)
timestamp_field(json) ==
    LET tried == SelectSeq(<<KeyTimestamp, KeyTs, KeyTime, KeyT>>,
                           LAMBDA key : json_get(json, key) # <<>>)
    IN IF tried = <<>> THEN <<>> ELSE json_get(json, tried[1])

\* the outcomes of match timestamp { ... }: <<>> for None, <<ts_millis>>,
\* or a panic
ts_millis_of(timestamp) ==
    CASE timestamp.kind = "Number" ->
           \* n.as_i64()?
           IF ~("wide" \in DOMAIN timestamp /\ InI64(timestamp.wide))
           THEN {[panic |-> FALSE, found |-> <<>>]}
           ELSE IF WideLess(MillisFrom, timestamp.wide)
                THEN {[panic |-> FALSE, found |-> <<timestamp.wide>>]}
                ELSE {[panic |-> r.panic, found |-> <<r.value>>] :
                         r \in I64Result(WideTimes(timestamp.wide, 1000))}
      [] timestamp.kind = "String" ->
           {[panic |-> FALSE, found |-> parse_i64(timestamp.s)]}
      [] OTHER -> {[panic |-> FALSE, found |-> <<>>]}

\* the outcomes of extract_payload_latency at the wall-clock time now_millis:
\* None, Some(latency), or a panic
extract_payload_latency(payload, now_millis) ==
    LET json == from_slice(payload) IN
    IF json = <<>> THEN {[panic |-> FALSE, latency |-> <<>>]}
    ELSE LET timestamp == timestamp_field(json[1]) IN
         IF timestamp = <<>> THEN {[panic |-> FALSE, latency |-> <<>>]}
         ELSE UNION {
                IF ts.panic THEN {[panic |-> TRUE, latency |-> <<>>]}
                ELSE IF ts.found = <<>>
                     THEN {[panic |-> FALSE, latency |-> <<>>]}
                ELSE {IF d.panic THEN [panic |-> TRUE, latency |-> <<>>]
                      ELSE IF ~d.value.neg /\ WideLess(d.value, HourMillis)
                           THEN [panic |-> FALSE,
                                 latency |-> <<WideToInt(d.value)>>]
                           ELSE [panic |-> FALSE, latency |-> <<>>] :
                        d \in I64Result(WideSub(now_millis, ts.found[1]))} :
                ts \in ts_millis_of(timestamp[1])}

\* pop_front when full, then push_back
push_sample(samples, max_samples, sample) ==
    Append(IF Len(samples) >= max_samples /\ samples # <<>>
           THEN Tail(samples) ELSE samples, sample)

\* The outcomes of record_message at the instant time and the wall-clock
\* time now_millis: the tracker after the call, or as the panic left it.
latency_record_message(lt, payload, time, now_millis) ==
    LET arrived ==
            IF lt.last_message_time = <<>> THEN lt
            ELSE LET inter_arrival == Max(time - lt.last_message_time[1], 0)
                 IN [lt EXCEPT
                       !.min_inter_arrival = Min(@, inter_arrival),
                       !.max_inter_arrival = Max(@, inter_arrival),
                       !.total_inter_arrival = @ + inter_arrival,
                       !.inter_arrival_count = @ + 1,
                       !.inter_arrival_times =
                           push_sample(@, lt.max_samples, inter_arrival)]
        seen == [arrived EXCEPT !.last_message_time = <<time>>]
    IN {IF e.panic THEN [tracker |-> seen, panic |-> TRUE]
        ELSE IF e.latency = <<>> THEN [tracker |-> seen, panic |-> FALSE]
        ELSE LET latency == e.latency[1] IN
             [tracker |->
                [seen EXCEPT
                   !.min_payload_latency =
                       <<IF @ = <<>> THEN latency ELSE Min(@[1], latency)>>,
                   !.max_payload_latency =
                       <<IF @ = <<>> THEN latency ELSE Max(@[1], latency)>>,
                   !.total_payload_latency = @ + latency,
                   !.payload_latency_count = @ + 1,
                   !.payload_latencies =
                       push_sample(@, seen.max_samples, latency)],
              panic |-> FALSE] :
          e \in extract_payload_latency(payload, now_millis)}

----------------------------------------------------------------------------
\* app.rs: the App fields the dispatcher writes, and handle_mqtt_event.  The
\* metric, device, latency and schema trackers a Message is also handed to
\* keep state of their own that none of these fields depends on.

DefaultStatsWindowSecs == 10

AppNew(message_buffer_size, time) ==
    [topic_tree |-> TopicTreeNew,
     message_buffer |-> MessageBufferNew(message_buffer_size),
     stats |-> StatsNew(DefaultStatsWindowSecs, time),
     connection_state |-> "Disconnected",
     last_error |-> NoError]

MessageEvent(msg) == [type |-> "Message", arg |-> msg, from |-> 0]

\* A dispatcher whose StateChange(Connected) leaves last_error alone
handle_mqtt_event_keeps_error(a, ev, time) ==
    CASE ev.type = "Message" ->
            [a EXCEPT !.stats = record_message(@, ev.arg.payload_size, time),
                      !.topic_tree = insert(@, ev.arg.topic,
                                            ev.arg.payload_size, time),
                      !.message_buffer = push(@, ev.arg)]
      [] ev.type = "StateChange" ->
            [a EXCEPT !.connection_state = ev.arg]
      [] ev.type = "Error" ->
            [a EXCEPT !.last_error = ev.arg]

\* A dispatcher that drops the messages arriving while Disconnected
handle_mqtt_event_drops_when_disconnected(a, ev, time) ==
    CASE ev.type = "Message" ->
            IF a.connection_state = "Disconnected" THEN a ELSE
            [a EXCEPT !.stats = record_message(@, ev.arg.payload_size, time),
                      !.topic_tree = insert(@, ev.arg.topic,
                                            ev.arg.payload_size, time),
                      !.message_buffer = push(@, ev.arg)]
      [] ev.type = "StateChange" ->
            [a EXCEPT !.connection_state = ev.arg,
                      !.last_error = IF ev.arg = "Connected"
                                     THEN NoError ELSE @]
      [] ev.type = "Error" ->
            [a EXCEPT !.last_error = ev.arg]

handle_mqtt_event(a, ev, time) ==
    CASE ev.type = "Message" ->
            [a EXCEPT !.stats = record_message(@, ev.arg.payload_size, time),
                      !.topic_tree = insert(@, ev.arg.topic,
                                            ev.arg.payload_size, time),
                      !.message_buffer = push(@, ev.arg)]
      [] ev.type = "StateChange" ->
            [a EXCEPT !.connection_state = ev.arg,
                      !.last_error = IF ev.arg = "Connected"
                                     THEN NoError ELSE @]
      [] ev.type = "Error" ->
            [a EXCEPT !.last_error = ev.arg]

----------------------------------------------------------------------------
\* Values the variables of a part hold while a specification does not use it.

NotEvaluated == [some |-> FALSE, v |-> -1]

SysUnused ==
    /\ strategy = BackoffDefault
    /\ server_config = [use_exact_client_id |-> FALSE, keep_alive_secs |-> 0]
    /\ pc = <<>>
    /\ connected = <<>>
    /\ gave_up = <<>>
    /\ health = <<>>
    /\ lock = <<>>
    /\ error_str = <<>>
    /\ sleep_delay = <<>>
    /\ channel = <<>>
    /\ connection_state = "Disconnected"
    /\ last_error = NoError
    /\ total_messages = 0
    /\ mqtt_client = 0
    /\ main_pc = "unused"
    /\ rpc = <<>>

HealthUnused ==
    /\ h = ConnectionHealthNew(BackoffDefault)
    /\ calls = <<>>

BackoffUnused ==
    /\ b_strategy = BackoffDefault
    /\ attempt = 0
    /\ delay = NotEvaluated
    /\ prev_delay = NotEvaluated

NotMatched == [done |-> FALSE, value |-> FALSE]

NoEvent == [type |-> "None", arg |-> "None", from |-> 0]

LogUnused ==
    /\ mbuf = MessageBufferNew(0)
    /\ pushed = EmptyMap
    /\ log_ops = 0

MatchUnused ==
    /\ pattern_str = <<>>
    /\ topic_str = <<>>
    /\ matched = NotMatched

NoQuery == [op |-> "None", expanded |-> {}, pattern |-> <<>>, result |-> <<>>]

TreeUnused ==
    /\ topic_tree = TopicTreeNew
    /\ inserted = {}
    /\ tree_ops = 0
    /\ tree_query = NoQuery

AppUnused ==
    /\ app = AppNew(0, 0)
    /\ before = AppNew(0, 0)
    /\ last_event = NoEvent
    /\ handled = 0

NoRates == [messages |-> Rate(0, 1), bytes |-> Rate(0, 1)]

StatsUnused ==
    /\ traffic = StatsNew(0, 0)
    /\ recorded = <<>>
    /\ stats_op = "None"
    /\ rates = NoRates

NoMessage == [topic |-> <<>>, payload |-> NotJsonPayload]

NoSparkline == [label |-> "None", width |-> 0, samples |-> <<>>]

MetricUnused ==
    /\ tracker = MetricTrackerNew(0)
    /\ tracker_before = MetricTrackerNew(0)
    /\ metric_log = EmptyMap
    /\ last_message = NoMessage
    /\ metric_op = "None"
    /\ spark = NoSparkline

NothingDisplayed == [counts |-> <<0, 0, 0, 0>>, devices |-> <<>>,
                     statuses |-> EmptyMap, frame |-> 0]

DeviceUnused ==
    /\ dev_tracker = DeviceTrackerNew
    /\ dev_arrivals = EmptyMap
    /\ dev_op = "None"
    /\ dev_topic = <<>>
    /\ displayed = NothingDisplayed

NoSchemaCall == [op |-> "None", topic |-> <<>>, payload |-> NotJsonPayload,
                 returned |-> <<>>, n |-> 0]

SchemaUnused ==
    /\ schema_tracker = SchemaTrackerNew
    /\ schema_call = NoSchemaCall
    /\ schema_seen = EmptyMap
    /\ schema_detected = <<>>

DefaultLatencySamples == 100

NoLatencyCall == [op |-> "None", payload |-> NotJsonPayload, panic |-> FALSE,
                  n |-> 0]

LatencyUnused ==
    /\ lat_tracker = LatencyTrackerNew(DefaultLatencySamples)
    /\ lat_call = NoLatencyCall

TrackersUnused ==
    /\ StatsUnused
    /\ MetricUnused
    /\ DeviceUnused
    /\ SchemaUnused
    /\ LatencyUnused

DataUnused ==
    /\ LogUnused
    /\ MatchUnused
    /\ TreeUnused
    /\ AppUnused
    /\ TrackersUnused
    /\ now = 0

----------------------------------------------------------------------------
\* SpecHealth: a ConnectionHealth driven by record_success / record_failure.

ErrorStrings == {"e1", "e2"}

HealthStrategies ==
    {BackoffDefault} \cup {with_max_attempts(BackoffDefault, n) : n \in 0..3}

InitHealth ==
    /\ \E b \in HealthStrategies : h = ConnectionHealthNew(b)
    /\ calls = <<>>
    /\ SysUnused
    /\ BackoffUnused
    /\ DataUnused

RecordSuccess ==
    /\ Len(calls) < MaxCalls
    /\ h' = record_success(h)
    /\ calls' = Append(calls, "ok")
    /\ UNCHANGED <<sysvars, bvars, dvars>>

RecordFailure ==
    /\ Len(calls) < MaxCalls
    /\ \E e \in ErrorStrings :
          /\ h' = record_failure(h, e)
          /\ calls' = Append(calls, e)
    /\ UNCHANGED <<sysvars, bvars, dvars>>

NextHealth == RecordSuccess \/ RecordFailure

SpecHealth == InitHealth /\ [][NextHealth]_vars

----------------------------------------------------------------------------
\* SpecBackoff: delay_for_attempt evaluated for any attempt number, and the
\* delays next_reconnect_delay gives after successive failures.

BaseDelays == {0, 1, 100, 1000}
MaxDelays == {500, 10000, 60000, 4000000}
AttemptLimits == {None, Some(0), Some(2), Some(3)}
JitterFactors == {Jitter(0, 1), Jitter(1, 10), Jitter(1, 2), Jitter(1, 1)}

BackoffStrategies ==
    {[base_delay_ms |-> bd, max_delay |-> md, max_attempts |-> ma,
      jitter_factor |-> jf] :
        bd \in BaseDelays, md \in MaxDelays, ma \in AttemptLimits,
        jf \in JitterFactors}

InitBackoff ==
    /\ b_strategy \in BackoffStrategies
    /\ h = ConnectionHealthNew(b_strategy)
    /\ calls = <<>>
    /\ attempt = 0
    /\ delay = NotEvaluated
    /\ prev_delay = NotEvaluated
    /\ SysUnused
    /\ DataUnused

\* backoff.delay_for_attempt(a), called on the strategy directly
DelayForAttempt ==
    /\ h.consecutive_failures = 0
    /\ \E a \in 0..MaxAttempt :
          /\ attempt' = a
          /\ delay' = delay_for_attempt(b_strategy, a)
    /\ prev_delay' = NotEvaluated
    /\ UNCHANGED <<sysvars, h, calls, b_strategy, dvars>>

\* health.record_failure(e); health.next_reconnect_delay()
FailureThenDelay ==
    /\ h.consecutive_failures < MaxAttempt
    /\ h' = record_failure(h, "e1")
    /\ attempt' = h'.consecutive_failures
    /\ delay' = next_reconnect_delay(h')
    /\ prev_delay' = IF h.consecutive_failures > 0 THEN delay ELSE NotEvaluated
    /\ UNCHANGED <<sysvars, calls, b_strategy, dvars>>

NextBackoff == DelayForAttempt \/ FailureThenDelay

SpecBackoff == InitBackoff /\ [][NextBackoff]_vars

----------------------------------------------------------------------------
\* The running system: client.rs (the event-loop task), main.rs (the main
\* loop), app.rs (handle_mqtt_event, reset_for_server_switch).

Tasks == 1..MaxClients
Readers == 1..NumReaders

PollError == "ConnectionError"
SubscribeError == "Subscribe failed"

SysStrategies ==
    {BackoffDefault,
     with_max_attempts(BackoffDefault, 1),
     with_max_attempts(BackoffDefault, 2)}

\* keep-alives of a server used with its client id as is: one whose
\* keep_alive + 2 s the second backoff delay exceeds, the default, and one
\* whose keep_alive + 2 s lies beyond the default max_delay
ExactKeepAlives == {5, DefaultKeepAliveSecs, DefaultMaxDelaySecs + 30}

ServerConfigs ==
    {[use_exact_client_id |-> FALSE, keep_alive_secs |-> DefaultKeepAliveSecs]}
    \cup {[use_exact_client_id |-> TRUE, keep_alive_secs |-> ka] :
             ka \in ExactKeepAlives}

\* MqttEvent, with the client whose connection produced it
Message(t) == [type |-> "Message", arg |-> "payload", from |-> t]
StateChange(st, t) == [type |-> "StateChange", arg |-> st, from |-> t]
Error(e, t) == [type |-> "Error", arg |-> e, from |-> t]

MessagesInFlight == Cardinality({i \in 1..Len(channel) : channel[i].type = "Message"})

\* tokio::sync::RwLock: first come, first served.  A release hands the lock
\* to the waiters at the head of the queue: to the writer if it is first and
\* no reader is left, else to every reader ahead of the first writer.
LockFree == [writer |-> FALSE, readers |-> {}, queue |-> <<>>]
CanWriteNow(l) == ~l.writer /\ l.readers = {} /\ l.queue = <<>>
CanReadNow(l) == ~l.writer /\ l.queue = <<>>
WriteWaiter == [write |-> TRUE, reader |-> 0]
ReadWaiter(r) == [write |-> FALSE, reader |-> r]

RECURSIVE HandOver(_)
HandOver(l) ==
    IF l.queue = <<>> \/ l.writer
    THEN l
    ELSE IF Head(l.queue).write
         THEN IF l.readers = {}
              THEN [l EXCEPT !.writer = TRUE, !.queue = Tail(@)]
              ELSE l
         ELSE HandOver([l EXCEPT !.readers = @ \cup {Head(l.queue).reader},
                                 !.queue = Tail(@)])

ReleaseWrite(l) == HandOver([l EXCEPT !.writer = FALSE])
ReleaseRead(l, r) == HandOver([l EXCEPT !.readers = @ \ {r}])

\* the readers that were waiting and now hold the lock
Woken(rp, l) ==
    [r \in DOMAIN rp |->
        IF rp[r] = "waiting" /\ r \in l.readers THEN "reading" ELSE rp[r]]

\* The write guard is kept across the sleep
LockWhenSleeping_no_drop(l) == l

\* drop(health) before tokio::time::sleep
LockWhenSleeping(l) == ReleaseWrite(l)

\* The loop goes on after StateChange(Disconnected) instead of breaking
AfterDisconnected_no_break == "poll"

AfterDisconnected == "done"

\* A sleep whose raise to keep_alive + 2 s stops at the strategy's max_delay
SleepDelay_within_max_delay(cfg, d) ==
    IF cfg.use_exact_client_id
    THEN Min(Max(d, (cfg.keep_alive_secs + MinDelayExtraSecs) * 1000),
             strategy.max_delay)
    ELSE d

\* The delay slept for: the backoff delay, raised to keep_alive + 2 s when the
\* client id is used as is
SleepDelay(cfg, d) ==
    IF cfg.use_exact_client_id
    THEN Max(d, (cfg.keep_alive_secs + MinDelayExtraSecs) * 1000)
    ELSE d

Init ==
    /\ strategy \in SysStrategies
    /\ server_config \in ServerConfigs
    /\ pc = [t \in Tasks |-> "unspawned"]
    /\ connected = [t \in Tasks |-> FALSE]
    /\ gave_up = [t \in Tasks |-> FALSE]
    /\ health = [t \in Tasks |-> ConnectionHealthNew(strategy)]
    /\ lock = [t \in Tasks |-> LockFree]
    /\ error_str = [t \in Tasks |-> NoError]
    /\ sleep_delay = [t \in Tasks |-> 0]
    /\ channel = <<>>
    /\ connection_state = "Disconnected"
    /\ last_error = NoError
    /\ total_messages = 0
    /\ mqtt_client = 0
    /\ main_pc = "start"
    /\ rpc = [r \in Readers |-> "idle"]
    /\ HealthUnused
    /\ BackoffUnused
    /\ DataUnused

unitvars == <<hvars, bvars, dvars>>

\* ---- the main task (main.rs) ----

\* connect_mqtt up to tokio::spawn: the new client's task starts to run
SpawnClient(t) ==
    /\ mqtt_client' = t
    /\ pc' = [pc EXCEPT ![t] = "poll"]
    /\ health' = [health EXCEPT ![t] = ConnectionHealthNew(strategy)]
    /\ main_pc' = "send_connecting"

StartupConnect ==
    /\ main_pc = "start"
    /\ SpawnClient(1)
    /\ UNCHANGED <<strategy, server_config, connected, gave_up, lock, error_str,
                   sleep_delay, channel, connection_state, last_error,
                   total_messages, rpc, unitvars>>

\* no server configured: the server manager opens, no client is created
StartupNoServers ==
    /\ main_pc = "start"
    /\ main_pc' = "loop"
    /\ UNCHANGED <<strategy, server_config, pc, connected, gave_up, health, lock,
                   error_str, sleep_delay, channel, connection_state,
                   last_error, total_messages, mqtt_client, rpc, unitvars>>

\* event_tx.send(StateChange(Connecting)), after the task was spawned
SendConnecting ==
    /\ main_pc = "send_connecting"
    /\ channel' = Append(channel, StateChange("Connecting", mqtt_client))
    /\ main_pc' = "loop"
    /\ UNCHANGED <<strategy, server_config, pc, connected, gave_up, health, lock,
                   error_str, sleep_delay, connection_state, last_error,
                   total_messages, mqtt_client, rpc, unitvars>>

\* App::handle_mqtt_event on the next event of the channel
HandleMqttEvent ==
    /\ main_pc = "loop"
    /\ channel # <<>>
    /\ LET event == Head(channel) IN
         /\ channel' = Tail(channel)
         /\ CASE event.type = "Message" ->
                   /\ total_messages' = total_messages + 1
                   /\ UNCHANGED <<connection_state, last_error>>
              [] event.type = "StateChange" ->
                   /\ connection_state' = event.arg
                   /\ last_error' = IF event.arg = "Connected"
                                    THEN NoError ELSE last_error
                   /\ UNCHANGED total_messages
              [] event.type = "Error" ->
                   /\ last_error' = event.arg
                   /\ UNCHANGED <<connection_state, total_messages>>
    /\ UNCHANGED <<strategy, server_config, pc, connected, gave_up, health, lock,
                   error_str, sleep_delay, mqtt_client, main_pc, rpc, unitvars>>

\* A key press sets pending_server_switch and the same iteration of the main
\* loop takes it: disconnect() of the old client (a request to its event
\* loop; its task is left running), reset_for_server_switch, connect_mqtt.
ServerSwitch ==
    /\ main_pc = "loop"
    /\ mqtt_client < MaxClients
    /\ \A r \in Readers : rpc[r] = "idle"
    /\ total_messages' = 0
    /\ SpawnClient(mqtt_client + 1)
    /\ UNCHANGED <<strategy, server_config, connected, gave_up, lock, error_str,
                   sleep_delay, channel, connection_state, last_error, rpc,
                   unitvars>>

\* ---- the event-loop task of client t (client.rs, 112-203) ----

TaskFrame == <<strategy, server_config, connection_state, last_error,
               total_messages, mqtt_client, main_pc, unitvars>>

Send(event) ==
    /\ Len(channel) < MaxQueue
    /\ channel' = Append(channel, event)

\* poll() returns Incoming(Publish): the message is sent to the App
PollPublish(t) ==
    /\ pc[t] = "poll" /\ connected[t]
    /\ total_messages + MessagesInFlight < MaxMessages
    /\ Send(Message(t))
    /\ UNCHANGED <<pc, connected, gave_up, health, lock, error_str,
                   sleep_delay, rpc, TaskFrame>>

\* poll() returns SubAck, PingResp, an Outgoing event or any other packet
PollOther(t) ==
    /\ pc[t] = "poll" /\ connected[t]
    /\ UNCHANGED vars

\* health.write().await.record_success(), the guard released at once;
\* send(StateChange(Connected)); then subscribe().await
ConnAckRecorded(t) ==
    /\ health' = [health EXCEPT ![t] = record_success(@)]
    /\ Send(StateChange("Connected", t))
    /\ pc' = [pc EXCEPT ![t] = "subscribe"]

\* poll() connects and returns Incoming(ConnAck)
PollConnAck(t) ==
    /\ pc[t] = "poll" /\ ~connected[t]
    /\ health[t].total_connections < MaxConnections
    /\ connected' = [connected EXCEPT ![t] = TRUE]
    /\ IF CanWriteNow(lock[t])
       THEN ConnAckRecorded(t) /\ UNCHANGED lock
       ELSE /\ lock' = [lock EXCEPT ![t].queue = Append(@, WriteWaiter)]
            /\ pc' = [pc EXCEPT ![t] = "connack_wait"]
            /\ UNCHANGED <<health, channel>>
    /\ UNCHANGED <<gave_up, error_str, sleep_delay, rpc, TaskFrame>>

SubscribeOk(t) ==
    /\ pc[t] = "subscribe"
    /\ pc' = [pc EXCEPT ![t] = "poll"]
    /\ UNCHANGED <<connected, gave_up, health, lock, error_str, sleep_delay,
                   channel, rpc, TaskFrame>>

SubscribeFailed(t) ==
    /\ pc[t] = "subscribe"
    /\ Send(Error(SubscribeError, t))
    /\ pc' = [pc EXCEPT ![t] = "poll"]
    /\ UNCHANGED <<connected, gave_up, health, lock, error_str, sleep_delay,
                   rpc, TaskFrame>>

\* health.write().await: the guard is held from here on;
\* health.record_failure(error_str); send(StateChange(Reconnecting))
FailureRecorded(t) ==
    /\ health' = [health EXCEPT ![t] = record_failure(@, PollError)]
    /\ Send(StateChange("Reconnecting", t))
    /\ pc' = [pc EXCEPT ![t] = "send_error"]

\* poll() returns Err(e)
PollErr(t) ==
    /\ pc[t] = "poll"
    /\ health[t].consecutive_failures < MaxFailures
    /\ connected' = [connected EXCEPT ![t] = FALSE]
    /\ error_str' = [error_str EXCEPT ![t] = PollError]
    /\ IF CanWriteNow(lock[t])
       THEN /\ FailureRecorded(t)
            /\ lock' = [lock EXCEPT ![t].writer = TRUE]
       ELSE /\ lock' = [lock EXCEPT ![t].queue = Append(@, WriteWaiter)]
            /\ pc' = [pc EXCEPT ![t] = "err_wait"]
            /\ UNCHANGED <<health, channel>>
    /\ UNCHANGED <<gave_up, sleep_delay, rpc, TaskFrame>>

\* send(Error(error_str)), then the decision: give up, sleep, or poll again
\* at once
SendError(t) ==
    /\ pc[t] = "send_error"
    /\ Send(Error(error_str[t], t))
    /\ error_str' = [error_str EXCEPT ![t] = NoError]
    /\ IF ~should_reconnect(health[t])
       THEN /\ pc' = [pc EXCEPT ![t] = "send_disconnected"]
            /\ UNCHANGED <<lock, sleep_delay>>
       ELSE LET d == next_reconnect_delay(health[t]) IN
            IF d.some
            THEN /\ sleep_delay' = [sleep_delay EXCEPT
                                      ![t] = SleepDelay(server_config, d.v)]
                 /\ lock' = [lock EXCEPT ![t] = LockWhenSleeping(@)]
                 /\ pc' = [pc EXCEPT ![t] = "sleep"]
            ELSE /\ lock' = [lock EXCEPT ![t] = ReleaseWrite(@)]
                 /\ pc' = [pc EXCEPT ![t] = "poll"]
                 /\ UNCHANGED sleep_delay
    /\ rpc' = Woken(rpc, lock'[t])
    /\ UNCHANGED <<connected, gave_up, health, TaskFrame>>

\* send(StateChange(Disconnected)); break
SendDisconnected(t) ==
    /\ pc[t] = "send_disconnected"
    /\ Send(StateChange("Disconnected", t))
    /\ gave_up' = [gave_up EXCEPT ![t] = TRUE]
    /\ lock' = [lock EXCEPT ![t] = ReleaseWrite(@)]
    /\ rpc' = Woken(rpc, lock'[t])
    /\ pc' = [pc EXCEPT ![t] = AfterDisconnected]
    /\ UNCHANGED <<connected, health, error_str, sleep_delay, TaskFrame>>

\* the sleep ends; a guard still held is dropped at the end of the match arm
Wake(t) ==
    /\ pc[t] = "sleep"
    /\ pc' = [pc EXCEPT ![t] = "poll"]
    /\ sleep_delay' = [sleep_delay EXCEPT ![t] = 0]
    /\ lock' = [lock EXCEPT ![t] = IF @.writer THEN ReleaseWrite(@) ELSE @]
    /\ rpc' = Woken(rpc, lock'[t])
    /\ UNCHANGED <<connected, gave_up, health, error_str, channel, TaskFrame>>

TaskStep(t) ==
    \/ PollPublish(t)
    \/ PollOther(t)
    \/ PollConnAck(t)
    \/ SubscribeOk(t)
    \/ SubscribeFailed(t)
    \/ PollErr(t)
    \/ SendError(t)
    \/ SendDisconnected(t)
    \/ Wake(t)

Next ==
    \/ StartupConnect
    \/ StartupNoServers
    \/ SendConnecting
    \/ HandleMqttEvent
    \/ ServerSwitch
    \/ \E t \in Tasks : TaskStep(t)

Spec == Init /\ [][Next]_vars

----------------------------------------------------------------------------
\* SpecLock: one client, its event-loop task, and readers of its health
\* (is_healthy, health_stats, last_error) contending for the RwLock.

\* the task waited for the write lock and has been handed it
ResumeWrite(t) ==
    /\ pc[t] \in {"connack_wait", "err_wait"}
    /\ lock[t].writer
    /\ IF pc[t] = "connack_wait"
       THEN /\ ConnAckRecorded(t)
            /\ lock' = [lock EXCEPT ![t] = ReleaseWrite(@)]
       ELSE /\ FailureRecorded(t)
            /\ UNCHANGED lock
    /\ rpc' = Woken(rpc, lock'[t])
    /\ UNCHANGED <<connected, gave_up, error_str, sleep_delay, TaskFrame>>

ReaderFrame == <<strategy, server_config, pc, connected, gave_up, health,
                 error_str, sleep_delay, channel, connection_state,
                 last_error, total_messages, mqtt_client, main_pc, unitvars>>

\* self.health.read().await in is_healthy, health_stats or last_error
ReaderAcquire(r) ==
    /\ rpc[r] = "idle"
    /\ mqtt_client # 0
    /\ IF CanReadNow(lock[mqtt_client])
       THEN /\ lock' = [lock EXCEPT ![mqtt_client].readers = @ \cup {r}]
            /\ rpc' = [rpc EXCEPT ![r] = "reading"]
       ELSE /\ lock' = [lock EXCEPT ![mqtt_client].queue = Append(@, ReadWaiter(r))]
            /\ rpc' = [rpc EXCEPT ![r] = "waiting"]
    /\ UNCHANGED ReaderFrame

\* the value is read and the read guard dropped
ReaderRelease(r) ==
    /\ rpc[r] = "reading"
    /\ lock' = [lock EXCEPT ![mqtt_client] = ReleaseRead(@, r)]
    /\ rpc' = Woken([rpc EXCEPT ![r] = "idle"], lock'[mqtt_client])
    /\ UNCHANGED ReaderFrame

NextLock ==
    \/ StartupConnect
    \/ SendConnecting
    \/ HandleMqttEvent
    \/ \E t \in Tasks : TaskStep(t)
    \/ \E t \in Tasks : ResumeWrite(t)
    \/ \E r \in Readers : ReaderAcquire(r)
    \/ \E r \in Readers : ReaderRelease(r)

\* The runtime runs every task that can run, a sleep ends, and the main loop
\* drains the channel on every iteration.
FairLock ==
    /\ WF_vars(SendConnecting)
    /\ WF_vars(HandleMqttEvent)
    /\ \A t \in Tasks :
         /\ WF_vars(ResumeWrite(t))
         /\ WF_vars(SendError(t))
         /\ WF_vars(SendDisconnected(t))
         /\ WF_vars(Wake(t))
    /\ \A r \in Readers : WF_vars(ReaderRelease(r))

SpecLock == Init /\ [][NextLock]_vars /\ FairLock


----------------------------------------------------------------------------
\* SpecApp: App::handle_mqtt_event fed any sequence of events, in any
\* connection state.

ConnectionStates == {"Disconnected", "Connecting", "Connected", "Reconnecting"}

\* message_buffer_size of the configuration
AppCapacities == {1, 2}

\* an MqttMessage; id stands for its payload and timestamp
MqttMessage(topic, payload_size, id) ==
    [topic |-> topic, payload_size |-> payload_size, id |-> id]

\* the topics and payload sizes of the messages that arrive
AppMessages(id) ==
    {MqttMessage(<<"a">>, 0, id), MqttMessage(<<"a", "/", "b">>, 2, id)}

AppEvents(id) ==
    {MessageEvent(m) : m \in AppMessages(id)}
        \cup {StateChange(st, 0) : st \in ConnectionStates}
        \cup {Error(e, 0) : e \in ErrorStrings}

InitApp ==
    /\ \E c \in AppCapacities : app = AppNew(c, 0)
    /\ before = app
    /\ last_event = NoEvent
    /\ handled = 0
    /\ now = 0
    /\ SysUnused
    /\ HealthUnused
    /\ BackoffUnused
    /\ LogUnused
    /\ MatchUnused
    /\ TreeUnused
    /\ TrackersUnused

\* app.handle_mqtt_event(event), the clock having advanced or not
HandleEvent ==
    /\ handled < MaxEvents
    /\ \E ev \in AppEvents(handled + 1), time \in {now, now + 1} :
          /\ app' = handle_mqtt_event(app, ev, time)
          /\ last_event' = ev
          /\ now' = time
    /\ before' = app
    /\ handled' = handled + 1
    /\ UNCHANGED <<sysvars, hvars, bvars, lvars, mvars, tvars, trvars>>

NextApp == HandleEvent

SpecApp == InitApp /\ [][NextApp]_vars

----------------------------------------------------------------------------
\* SpecLog: a MessageBuffer of any capacity driven by push, clear and
\* clear_topic.

LogTopics == {<<"a">>, <<"b">>}

InitLog ==
    /\ \E c \in 0..MaxCapacity : mbuf = MessageBufferNew(c)
    /\ pushed = [t \in LogTopics |-> <<>>]
    /\ log_ops = 0
    /\ SysUnused
    /\ HealthUnused
    /\ BackoffUnused
    /\ MatchUnused
    /\ TreeUnused
    /\ AppUnused
    /\ TrackersUnused
    /\ now = 0

LogFrame == <<sysvars, hvars, bvars, mvars, tvars, avars, trvars, now>>

\* buffer.push(message)
Push ==
    /\ log_ops < MaxLogOps
    /\ \E t \in LogTopics :
          LET message == MqttMessage(t, 0, log_ops + 1) IN
          /\ mbuf' = push(mbuf, message)
          /\ pushed' = [pushed EXCEPT ![t] = Append(@, message)]
    /\ log_ops' = log_ops + 1
    /\ UNCHANGED LogFrame

\* buffer.clear()
Clear ==
    /\ log_ops < MaxLogOps
    /\ mbuf' = buffer_clear(mbuf)
    /\ pushed' = [t \in LogTopics |-> <<>>]
    /\ log_ops' = log_ops + 1
    /\ UNCHANGED LogFrame

\* buffer.clear_topic(topic)
ClearTopic ==
    /\ log_ops < MaxLogOps
    /\ \E t \in LogTopics :
          /\ mbuf' = clear_topic(mbuf, t)
          /\ pushed' = [pushed EXCEPT ![t] = <<>>]
    /\ log_ops' = log_ops + 1
    /\ UNCHANGED LogFrame

NextLog == Push \/ Clear \/ ClearTopic

SpecLog == InitLog /\ [][NextLog]_vars

----------------------------------------------------------------------------
\* SpecMatch: topic_matches applied to any pattern and any topic.

PatternChars == {"a", "+", "#", "/"}

TopicChars == {"a", "A", "/"}

\* the strings of at most n characters
Strings(chars, n) == UNION {[1..k -> chars] : k \in 0..n}

InitMatch ==
    /\ pattern_str \in Strings(PatternChars, MaxLen)
    /\ topic_str \in Strings(TopicChars, MaxLen)
    /\ matched = NotMatched
    /\ SysUnused
    /\ HealthUnused
    /\ BackoffUnused
    /\ LogUnused
    /\ TreeUnused
    /\ AppUnused
    /\ TrackersUnused
    /\ now = 0

\* topic_matches(pattern, topic)
TopicMatches ==
    /\ ~matched.done
    /\ matched' = [done |-> TRUE,
                   value |-> topic_matches(pattern_str, topic_str)]
    /\ UNCHANGED <<sysvars, hvars, bvars, lvars, tvars, avars, trvars, now,
                   pattern_str, topic_str>>

NextMatch == TopicMatches

SpecMatch == InitMatch /\ [][NextMatch]_vars

----------------------------------------------------------------------------
\* SpecTree: a TopicTree driven by insert and clear.

\* topics that are prefixes and extensions of one another, a sibling, the
\* empty topic and a topic with an empty last segment
TreeTopics ==
    {<<"a">>, <<"a", "/", "b">>, <<"a", "/", "b", "/", "c">>, <<"B">>,
     <<>>, <<"/", "a", "/", "b">>}

\* the full paths a display can hold as expanded
ExpandedPaths == {<<>>, <<"a">>, <<"a", "/", "b">>}

\* the strings searched for
SearchPatterns == {<<>>, <<"A">>, <<"b">>, <<"/">>}

PayloadSizes == {0, 2}

InitTree ==
    /\ topic_tree = TopicTreeNew
    /\ inserted = {}
    /\ tree_ops = 0
    /\ tree_query = NoQuery
    /\ now = 0
    /\ SysUnused
    /\ HealthUnused
    /\ BackoffUnused
    /\ LogUnused
    /\ MatchUnused
    /\ AppUnused
    /\ TrackersUnused

TreeFrame == <<sysvars, hvars, bvars, lvars, mvars, avars, trvars>>

\* tree.insert(topic, payload_size), the clock having advanced or not
Insert ==
    /\ tree_ops < MaxTreeOps
    /\ \E t \in TreeTopics, size \in PayloadSizes, time \in {now, now + 1} :
          /\ topic_tree' = insert(topic_tree, t, size, time)
          /\ inserted' = inserted \cup {t}
          /\ now' = time
    /\ tree_ops' = tree_ops + 1
    /\ tree_query' = NoQuery
    /\ UNCHANGED TreeFrame

\* tree.clear()
ClearTree ==
    /\ tree_ops < MaxTreeOps
    /\ topic_tree' = tree_clear(topic_tree)
    /\ inserted' = {}
    /\ tree_ops' = tree_ops + 1
    /\ tree_query' = NoQuery
    /\ UNCHANGED <<TreeFrame, now>>

\* tree.get_visible_topics(&expanded)
GetVisibleTopics ==
    /\ \E e \in SUBSET ExpandedPaths :
          tree_query' = [op |-> "get_visible_topics", expanded |-> e,
                         pattern |-> <<>>,
                         result |-> get_visible_topics(topic_tree, e)]
    /\ UNCHANGED <<TreeFrame, now, topic_tree, inserted, tree_ops>>

\* tree.search(pattern)
Search ==
    /\ \E s \in SearchPatterns : \E r \in search(topic_tree, s) :
          tree_query' = [op |-> "search", expanded |-> {}, pattern |-> s,
                         result |-> r]
    /\ UNCHANGED <<TreeFrame, now, topic_tree, inserted, tree_ops>>

NextTree == Insert \/ ClearTree

SpecTree == InitTree /\ [][NextTree]_vars

\* SpecTreeQuery: the same tree, queried between the calls
NextTreeQuery == Insert \/ ClearTree \/ GetVisibleTopics \/ Search

SpecTreeQuery == InitTree /\ [][NextTreeQuery]_vars

----------------------------------------------------------------------------
\* SpecStats: a Stats of any window driven by record_message and reset, read
\* at any instant of a clock that starts anywhere.

StatsWindows == {1, 2}

\* readings of the monotonic clock when the Stats is created: the machine has
\* been up for the longest window exactly, or for longer
ClockStarts == {2, 3}

InitStats ==
    /\ now \in ClockStarts
    /\ \E w \in StatsWindows : traffic = StatsNew(w, now)
    /\ recorded = <<>>
    /\ stats_op = "new"
    /\ rates = NoRates
    /\ SysUnused
    /\ HealthUnused
    /\ BackoffUnused
    /\ LogUnused
    /\ MatchUnused
    /\ TreeUnused
    /\ AppUnused
    /\ MetricUnused
    /\ DeviceUnused
    /\ SchemaUnused
    /\ LatencyUnused

StatsFrame ==
    <<sysvars, hvars, bvars, lvars, mvars, tvars, avars, kvars, gvars, cvars,
      yvars>>

\* stats.record_message(payload_size)
RecordMessage ==
    /\ Len(recorded) < MaxRecords
    /\ \E size \in PayloadSizes :
          /\ traffic' = record_message(traffic, size, now)
          /\ recorded' = Append(recorded, [time |-> now, size |-> size])
    /\ stats_op' = "record_message"
    /\ rates' = NoRates
    /\ UNCHANGED <<StatsFrame, now>>

\* stats.reset()
ResetStats ==
    /\ recorded # <<>>
    /\ traffic' = stats_reset(traffic, now)
    /\ recorded' = <<>>
    /\ stats_op' = "reset"
    /\ rates' = NoRates
    /\ UNCHANGED <<StatsFrame, now>>

\* stats.messages_per_second() and stats.bytes_per_second()
ReadRates ==
    /\ rates' = [messages |-> messages_per_second(traffic, now),
                 bytes |-> bytes_per_second(traffic, now)]
    /\ stats_op' = "rates"
    /\ UNCHANGED <<StatsFrame, now, traffic, recorded>>

\* a second passes
Tick ==
    /\ now < MaxClock
    /\ now' = now + 1
    /\ stats_op' = "tick"
    /\ rates' = NoRates
    /\ UNCHANGED <<StatsFrame, traffic, recorded>>

NextStats == RecordMessage \/ ResetStats \/ ReadRates \/ Tick

SpecStats == InitStats /\ [][NextStats]_vars

----------------------------------------------------------------------------
\* SpecMetric: a MetricTracker driven by track and process_message,
\* its sparklines read between the calls.

MetricCapacities == {1, 2, 3}

\* the metrics a user tracks: Power reads W of the meters, Deep reads d.p of
\* everything below t
MetricDefs ==
    [Power |-> [topic_pattern |-> <<"t", "/", "+", "/", "m">>,
                field_path |-> <<"W">>],
     Deep |-> [topic_pattern |-> <<"t", "/", "#">>,
               field_path |-> <<"d", ".", "p">>]]

MetricLabels == {"Power", "Deep"}

MeterTopic == <<"t", "/", "d", "/", "m">>

OtherTopic == <<"t", "/", "x">>

KeyW == <<"W">>
KeyD == <<"d">>
KeyP == <<"p">>

\* {"W": 1500}
Payload1500 == JsonPayload(JObject(MapPut(EmptyMap, KeyW, JNumber(1500))))

\* {"W": 1450, "d": {"p": 2}}
Payload1450 ==
    JsonPayload(JObject(MapPut(MapPut(EmptyMap, KeyW, JNumber(1450)), KeyD,
                               JObject(MapPut(EmptyMap, KeyP, JNumber(2))))))

\* {"W": "1600"}
Payload1600 ==
    JsonPayload(JObject(MapPut(EmptyMap, KeyW,
                               JString(<<"1", "6", "0", "0">>))))

\* {"W": "x", "d": {"p": 1}}
PayloadWrongType ==
    JsonPayload(JObject(MapPut(MapPut(EmptyMap, KeyW, JString(<<"x">>)), KeyD,
                               JObject(MapPut(EmptyMap, KeyP, JNumber(1))))))

\* the messages that arrive: every payload on the meter's topic, and one
\* on a topic only Deep matches
MetricMessages ==
    {[topic |-> MeterTopic, payload |-> p] :
        p \in {Payload1500, Payload1450, Payload1600, PayloadWrongType,
               NotJsonPayload}}
    \cup {[topic |-> OtherTopic, payload |-> Payload1450]}

SparklineWidths == {1, 2, 3}

InitMetric ==
    /\ \E c \in MetricCapacities : tracker = MetricTrackerNew(c)
    /\ tracker_before = tracker
    /\ metric_log = EmptyMap
    /\ last_message = NoMessage
    /\ metric_op = "new"
    /\ spark = NoSparkline
    /\ now = 0
    /\ SysUnused
    /\ HealthUnused
    /\ BackoffUnused
    /\ LogUnused
    /\ MatchUnused
    /\ TreeUnused
    /\ AppUnused
    /\ StatsUnused
    /\ DeviceUnused
    /\ SchemaUnused
    /\ LatencyUnused

MetricFrame ==
    <<sysvars, hvars, bvars, lvars, mvars, tvars, avars, svars, gvars, cvars,
      yvars, now>>

\* tracker.track(label, topic_pattern, field_path) of a label not tracked yet
Track ==
    /\ \E l \in MetricLabels \ DOMAIN tracker.metrics :
          /\ tracker' = track(tracker, l, MetricDefs[l].topic_pattern,
                              MetricDefs[l].field_path)
          /\ metric_log' = MapPut(metric_log, l, <<>>)
    /\ tracker_before' = tracker
    /\ last_message' = NoMessage
    /\ metric_op' = "track"
    /\ spark' = NoSparkline
    /\ UNCHANGED MetricFrame

\* tracker.process_message(topic, payload)
ProcessMessage ==
    /\ \A l \in DOMAIN metric_log : Len(metric_log[l]) < MaxProcessed
    /\ \E m \in MetricMessages :
          /\ tracker' = process_message(tracker, m.topic, m.payload, now)
          /\ metric_log' = [l \in DOMAIN metric_log |->
                               Append(metric_log[l], m)]
          /\ last_message' = m
    /\ tracker_before' = tracker
    /\ metric_op' = "process_message"
    /\ spark' = NoSparkline
    /\ UNCHANGED MetricFrame

\* metric.sparkline_data(width) of a tracked metric
Sparkline ==
    /\ \E l \in DOMAIN tracker.metrics, w \in SparklineWidths :
          spark' = [label |-> l, width |-> w,
                    samples |-> sparkline_data(tracker.metrics[l], w)]
    /\ metric_op' = "sparkline_data"
    /\ UNCHANGED <<MetricFrame, tracker, tracker_before, metric_log,
                   last_message>>

NextMetric == Track \/ ProcessMessage \/ Sparkline

SpecMetric == InitMetric /\ [][NextMetric]_vars

----------------------------------------------------------------------------
\* SpecDevice: a DeviceTracker driven by process_message and
\* update_all_statuses while time passes.  SpecDeviceRun: the tracker as the
\* program runs it, fed by the dispatcher and read by the display, frame
\* after frame.  The clock of the model stops at its bound; the frames go on.

TelemetryD1 == Telemetry \o <<"/", "d", "1", "/", "m", "e", "t", "e", "r">>

DevicesD2 == Devices \o <<"/", "d", "2", "/", "s", "t", "a", "t", "u", "s">>

SitesD1 ==
    Sites \o <<"/", "s", "1", "/">> \o Devices \o <<"/", "d", "1", "/", "x">>

RandomTopic == <<"r", "a", "n", "d", "o", "m", "/", "t", "o", "p", "i", "c">>

\* sites/s1/devices: the rule for sites without the segment of the device
SitesNoDevice == Sites \o <<"/", "s", "1", "/">> \o Devices

\* telemetry/d1/meter, devices/d2/status, sites/s1/devices/d1/x and topics
\* of no device: random/topic, telemetry, sites/s1/devices
DeviceTopics ==
    {TelemetryD1, DevicesD2, SitesD1, RandomTopic, Telemetry, SitesNoDevice}

DevicePayloadSizes == {100}

\* the clock when the tracker is created: the machine has been up for a
\* rate window
DeviceClockStart == RateWindowSecs

\* the clock advances by half a rate window at a time
HalfMinuteSecs == RateWindowSecs \div 2

InitDevice ==
    /\ dev_tracker = DeviceTrackerNew
    /\ dev_arrivals = EmptyMap
    /\ dev_op = "new"
    /\ dev_topic = <<>>
    /\ displayed = NothingDisplayed
    /\ now = DeviceClockStart
    /\ SysUnused
    /\ HealthUnused
    /\ BackoffUnused
    /\ LogUnused
    /\ MatchUnused
    /\ TreeUnused
    /\ AppUnused
    /\ StatsUnused
    /\ MetricUnused
    /\ SchemaUnused
    /\ LatencyUnused

DeviceFrame ==
    <<sysvars, hvars, bvars, lvars, mvars, tvars, avars, svars, kvars, cvars,
      yvars>>

RECURSIVE TotalArrivals(_)
TotalArrivals(log) ==
    IF DOMAIN log = {} THEN 0
    ELSE LET id == CHOOSE id \in DOMAIN log : TRUE
         IN Len(log[id]) + TotalArrivals(MapRemove(log, id))

\* device_tracker.process_message(topic, payload_size), as the dispatcher
\* calls it for a Message event
DeviceMessage ==
    /\ TotalArrivals(dev_arrivals) < MaxDeviceMessages
    /\ \E t \in DeviceTopics, size \in DevicePayloadSizes :
          /\ dev_tracker' = device_process_message(dev_tracker, t, size, now)
          /\ dev_topic' = t
          /\ dev_arrivals' =
                LET id == extract_device_id(t) IN
                IF id = <<>> THEN dev_arrivals
                ELSE MapPut(dev_arrivals, id[1],
                            Append(IF id[1] \in DOMAIN dev_arrivals
                                   THEN dev_arrivals[id[1]] ELSE <<>>, now))
    /\ dev_op' = "process_message"
    /\ UNCHANGED <<DeviceFrame, now, displayed>>

\* device_tracker.update_all_statuses()
UpdateAllStatuses ==
    /\ dev_tracker' = update_all_statuses(dev_tracker, now)
    /\ dev_op' = "update_all_statuses"
    /\ UNCHANGED <<DeviceFrame, now, dev_arrivals, dev_topic, displayed>>

\* the display draws a frame with the device section: count_by_status() and
\* get_devices(); frames alternate between two screen buffers
Display ==
    /\ IF device_count(dev_tracker) > 0
       THEN \E order \in get_devices(dev_tracker) :
              displayed' =
                  [counts |-> count_by_status(dev_tracker),
                   devices |-> order,
                   statuses |-> [id \in DOMAIN dev_tracker.devices |->
                                   dev_tracker.devices[id].status],
                   frame |-> 1 - displayed.frame]
       ELSE displayed' = [NothingDisplayed EXCEPT !.frame = 1 - displayed.frame]
    /\ dev_op' = "draw"
    /\ UNCHANGED <<DeviceFrame, now, dev_tracker, dev_arrivals, dev_topic>>

\* half a minute passes
HalfMinute ==
    /\ now < DeviceClockStart + MaxHalfMinutes * HalfMinuteSecs
    /\ now' = now + HalfMinuteSecs
    /\ dev_op' = "None"
    /\ UNCHANGED <<DeviceFrame, dev_tracker, dev_arrivals, dev_topic, displayed>>

NextDevice == DeviceMessage \/ UpdateAllStatuses \/ HalfMinute

SpecDevice == InitDevice /\ [][NextDevice]_vars

\* Nothing in the program calls update_all_statuses.  Time passes and the
\* display is redrawn again and again.
NextDeviceRun == DeviceMessage \/ Display \/ HalfMinute

SpecDeviceRun ==
    InitDevice /\ [][NextDeviceRun]_vars
        /\ WF_vars(Display) /\ WF_vars(HalfMinute)

----------------------------------------------------------------------------
\* SpecSchema: a SchemaTracker that gets messages on two topics.

SchemaTopicA == <<"s", "/", "a">>

SchemaTopicB == <<"s", "/", "b">>

SchemaTopics == {SchemaTopicA, SchemaTopicB}

KeyA == <<"a">>
KeyB == <<"b">>
KeyC == <<"c">>
KeyE == <<"e">>

\* {"a": 1, "b": "x"}
SchemaPayload1 ==
    JsonPayload(JObject(MapPut(MapPut(EmptyMap, KeyA, JNumber(1)),
                               KeyB, JString(<<"x">>))))

\* {"a": "s", "c": {"d": null}}
SchemaPayload2 ==
    JsonPayload(JObject(MapPut(MapPut(EmptyMap, KeyA, JString(<<"s">>)),
                               KeyC, JObject(MapPut(EmptyMap, KeyD, JNull)))))

\* {"a": 2, "e": [true, 7]}
SchemaPayload3 ==
    JsonPayload(JObject(MapPut(MapPut(EmptyMap, KeyA, JNumber(2)),
                               KeyE, JArray(<<JBool(TRUE), JNumber(7)>>))))

\* 5: JSON with no field
SchemaPayloadScalar == JsonPayload(JNumber(5))

SchemaPayloads ==
    {SchemaPayload1, SchemaPayload2, SchemaPayload3, SchemaPayloadScalar,
     NotJsonPayload}

\* the sizes of the history: two, and the 50 of SchemaTracker::new()
SchemaCapacities == {2, DefaultMaxChanges}

InitSchema ==
    /\ \E cap \in SchemaCapacities :
          schema_tracker = SchemaTrackerOfSize(cap)
    /\ schema_call = NoSchemaCall
    /\ schema_seen = EmptyMap
    /\ schema_detected = <<>>
    /\ now = 0
    /\ SysUnused
    /\ HealthUnused
    /\ BackoffUnused
    /\ LogUnused
    /\ MatchUnused
    /\ TreeUnused
    /\ AppUnused
    /\ StatsUnused
    /\ MetricUnused
    /\ DeviceUnused
    /\ LatencyUnused

SchemaFrame ==
    <<sysvars, hvars, bvars, lvars, mvars, tvars, avars, svars, kvars, gvars,
      yvars>>

\* schema_tracker.process_message(topic, payload)
SchemaMessage ==
    /\ schema_call.n < MaxSchemaMessages
    /\ \E t \in SchemaTopics, p \in SchemaPayloads :
          \E outcome \in schema_process_message(schema_tracker, t, p, now) :
             /\ schema_tracker' = outcome.tracker
             /\ schema_call' =
                   [op |-> "process_message", topic |-> t, payload |-> p,
                    returned |-> outcome.returned, n |-> schema_call.n + 1]
             /\ schema_seen' = IF p.is_json THEN MapPut(schema_seen, t, p)
                               ELSE schema_seen
             /\ schema_detected' = schema_detected \o outcome.returned
    /\ UNCHANGED <<SchemaFrame, now>>

\* schema_tracker.clear_changes()
ClearChanges ==
    /\ schema_call.op = "process_message"
    /\ schema_tracker.changes # <<>>
    /\ schema_tracker' = [schema_tracker EXCEPT !.changes = <<>>]
    /\ schema_call' = [schema_call EXCEPT !.op = "clear_changes"]
    /\ schema_detected' = <<>>
    /\ UNCHANGED <<SchemaFrame, schema_seen, now>>

NextSchema == SchemaMessage \/ ClearChanges

SpecSchema == InitSchema /\ [][NextSchema]_vars

----------------------------------------------------------------------------
\* SpecLatency: a LatencyTracker that gets messages while time passes.  The
\* instant now counts milliseconds; the wall clock shows WallStart at
\* instant 0.

\* 1_800_000_000_616 ms after the epoch
WallStart == Wide(FALSE, <<0, 1, 800000, 616>>)

now_millis_at(time) == WideAdd(WallStart, WideOf(time))

WithField(key, value) == JsonPayload(JObject(MapPut(EmptyMap, key, value)))

\* {}
LatencyNoField == JsonPayload(JObject(EmptyMap))

\* {"ts": 1800000000}: seconds, 616 ms before WallStart
LatencySeconds == WithField(KeyTs, JInteger(Wide(FALSE, <<0, 0, 1800, 0>>)))

\* {"timestamp": 1799999995616}: milliseconds, 5 s before WallStart
LatencyMillis ==
    WithField(KeyTimestamp, JInteger(Wide(FALSE, <<0, 1, 799999, 995616>>)))

\* {"t": "1800000000116"}: milliseconds in a string, 500 ms before WallStart
LatencyString ==
    WithField(KeyT, JString(<<"1", "8", "0", "0", "0", "0", "0", "0", "0",
                              "0", "1", "1", "6">>))

\* {"time": 1800000002}: seconds, 1384 ms after WallStart
LatencyFuture == WithField(KeyTime, JInteger(Wide(FALSE, <<0, 0, 1800, 2>>)))

\* {"ts": "1799996400616"}: one hour before WallStart
LatencyHourOld ==
    WithField(KeyTs, JString(<<"1", "7", "9", "9", "9", "9", "6", "4", "0",
                               "0", "6", "1", "6">>))

\* {"ts": "abc"}
LatencyUnparseable == WithField(KeyTs, JString(<<"a", "b", "c">>))

\* {"ts": -18446742273709551}: seconds, some 584 million years before the
\* epoch
LatencyAncient ==
    WithField(KeyTs, JInteger(Wide(TRUE, <<0, 18446, 742273, 709551>>)))

\* {"ts": "-9223372036854775808"}
LatencyMinString ==
    WithField(KeyTs, JString(<<"-", "9", "2", "2", "3", "3", "7", "2", "0",
                               "3", "6", "8", "5", "4", "7", "7", "5", "8",
                               "0", "8">>))

LatencyPayloads ==
    {NotJsonPayload, LatencyNoField, LatencySeconds, LatencyMillis,
     LatencyString, LatencyFuture, LatencyHourOld, LatencyUnparseable,
     LatencyAncient, LatencyMinString}

LatencySampleSizes == {2}

InitLatency ==
    /\ \E size \in LatencySampleSizes : lat_tracker = LatencyTrackerNew(size)
    /\ lat_call = NoLatencyCall
    /\ now = 0
    /\ SysUnused
    /\ HealthUnused
    /\ BackoffUnused
    /\ LogUnused
    /\ MatchUnused
    /\ TreeUnused
    /\ AppUnused
    /\ StatsUnused
    /\ MetricUnused
    /\ DeviceUnused
    /\ SchemaUnused

LatencyFrame ==
    <<sysvars, hvars, bvars, lvars, mvars, tvars, avars, svars, kvars, gvars,
      cvars>>

\* latency_tracker.record_message(payload); a panic ends the program
LatencyMessage ==
    /\ ~lat_call.panic
    /\ lat_call.n < MaxLatencyMessages
    /\ \E p \in LatencyPayloads :
          \E outcome \in latency_record_message(lat_tracker, p, now,
                                                 now_millis_at(now)) :
             /\ lat_tracker' = outcome.tracker
             /\ lat_call' = [op |-> "record_message", payload |-> p,
                             panic |-> outcome.panic, n |-> lat_call.n + 1]
    /\ UNCHANGED <<LatencyFrame, now>>

\* a second passes
LatencyTick ==
    /\ ~lat_call.panic
    /\ now < MaxLatencyMillis
    /\ now' = now + 1000
    /\ UNCHANGED <<LatencyFrame, lat_tracker, lat_call>>

NextLatency == LatencyMessage \/ LatencyTick

SpecLatency == InitLatency /\ [][NextLatency]_vars

----------------------------------------------------------------------------
\* Claims about the running system.

\* the step appends an event produced by client t's task to the channel
SendsEvent(t) ==
    /\ Len(channel') = Len(channel) + 1
    /\ channel'[Len(channel')].from = t
    /\ ~(main_pc = "send_connecting" /\ main_pc' = "loop")

EmitsDisconnected(t) ==
    /\ SendsEvent(t)
    /\ channel'[Len(channel')].type = "StateChange"
    /\ channel'[Len(channel')].arg = "Disconnected"

SpecTransitions ==
    {<<"Disconnected", "Connecting">>, <<"Connecting", "Connected">>,
     <<"Connected", "Reconnecting">>, <<"Reconnecting", "Connected">>,
     <<"Reconnecting", "Disconnected">>}

\* C1: App.connection_state only ever changes along Disconnected->Connecting,
\* Connecting->Connected, Connected->Reconnecting, Reconnecting->Connected
\* and Reconnecting->Disconnected.
C1_OnlySpecTransitions ==
    [][connection_state' # connection_state =>
         <<connection_state, connection_state'>> \in SpecTransitions]_vars

\* C2: a task emits StateChange(Disconnected) only right after a recorded
\* failure for which should_reconnect() is false, that is with a limit set
\* and at least that many failures in a row; with no limit it never does.
C2_DisconnectedOnlyOnExhaustion ==
    [][\A t \in Tasks :
         EmitsDisconnected(t) =>
            /\ strategy.max_attempts.some
            /\ health[t].consecutive_failures >= strategy.max_attempts.v
            /\ health[t].consecutive_failures > 0
            /\ health[t].last_error = PollError
            /\ lock[t].writer]_vars

\* a client that had been connected gave up after two failures in a row
C2_Witness ==
    /\ strategy.max_attempts = Some(2)
    /\ gave_up[1]
    /\ health[1].total_connections >= 1
    /\ health[1].consecutive_failures = 2

\* C3: once a task has emitted StateChange(Disconnected) it polls no more,
\* sleeps no more and sends no further event.
C3_ExhaustionIsTerminal ==
    [][\A t \in Tasks :
         gave_up[t] =>
            /\ pc'[t] = pc[t]
            /\ health'[t] = health[t]
            /\ connected'[t] = connected[t]
            /\ sleep_delay'[t] = sleep_delay[t]
            /\ lock'[t] = lock[t]
            /\ ~SendsEvent(t)]_vars

\* the first client gave up, the App shows Disconnected, a second client runs
C3_Witness ==
    /\ gave_up[1]
    /\ connection_state = "Disconnected"
    /\ mqtt_client = 2 /\ pc[2] = "sleep"

\* after a failed poll (the Error event sent) the task either goes on to emit
\* Disconnected or sleeps for Slept(t); it never polls again without sleeping
AfterFailedPoll(t, slept) ==
    (pc[t] = "send_error" /\ pc'[t] # "send_error") =>
        \/ pc'[t] = "send_disconnected"
        \/ pc'[t] = "sleep" /\ sleep_delay'[t] = slept

LoopShape(t) ==
    /\ (pc[t] = "send_disconnected" /\ pc'[t] # pc[t]) =>
            EmitsDisconnected(t) /\ pc'[t] = "done"
    /\ (pc[t] = "sleep" /\ pc'[t] # pc[t]) => pc'[t] = "poll"
    /\ (pc[t] = "poll" /\ ~connected'[t] /\ pc'[t] # pc[t]) =>
            pc'[t] = "send_error"
    /\ pc'[t] = "done" => gave_up'[t]

\* C4 as stated: after every failed poll the task either emits Disconnected
\* and terminates or sleeps for the delay given by next_reconnect_delay()
\* before polling again; it never polls again without sleeping and never
\* terminates without having emitted Disconnected.
C4_AsStated ==
    [][\A t \in Tasks :
         /\ AfterFailedPoll(t, next_reconnect_delay(health[t]).v)
         /\ LoopShape(t)]_vars

\* C4 (amended): as C4, the sleep lasting the delay given by
\* next_reconnect_delay(), raised to keep_alive_secs + 2 s when
\* use_exact_client_id is set and the delay is shorter.
C4_NoSpinNoSilentExit ==
    [][\A t \in Tasks :
         /\ AfterFailedPoll(t,
              LET d == next_reconnect_delay(health[t]).v
                  floor == (server_config.keep_alive_secs + 2) * 1000
              IN IF server_config.use_exact_client_id /\ d < floor
                 THEN floor ELSE d)
         /\ LoopShape(t)]_vars

\* a task sleeping 32 s after its first failure, the client id used as is
C4_Witness ==
    /\ server_config.use_exact_client_id
    /\ pc[1] = "sleep"
    /\ health[1].consecutive_failures = 1
    /\ sleep_delay[1] = 32000

\* C5: after a server switch the old client's task makes no further
\* reconnect attempt (its backoff wait is aborted) and sends no further event.
C5_OldTaskStopsAfterSwitch ==
    [][\A t \in Tasks :
         (t < mqtt_client /\ main_pc = "loop") =>
            /\ ~SendsEvent(t)
            /\ ~(pc[t] = "sleep" /\ pc'[t] = "poll")]_vars

WaitingWrite(t) == pc[t] \in {"connack_wait", "err_wait"}

\* C6: the task never holds the write lock while it sleeps; a reader that
\* arrives during a sleep gets the lock at once; every lock taken is released
\* again; a task waiting for the write lock and a reader waiting for the read
\* lock eventually get it.
C6_LockDiscipline ==
    /\ [](\A t \in Tasks : pc[t] = "sleep" => ~lock[t].writer)
    /\ [][\A r \in Readers :
            (/\ rpc[r] = "idle" /\ rpc'[r] # "idle"
             /\ pc[mqtt_client] = "sleep") => rpc'[r] = "reading"]_vars
    /\ \A t \in Tasks : lock[t].writer ~> ~lock[t].writer
    /\ \A t \in Tasks : WaitingWrite(t) ~> ~WaitingWrite(t)
    /\ \A r \in Readers : (rpc[r] = "reading") ~> (rpc[r] = "idle")
    /\ \A r \in Readers : (rpc[r] = "waiting") ~> (rpc[r] = "reading")

\* a reader holds the lock while the task sleeps, the other reader is idle
C6_Witness ==
    /\ pc[1] = "sleep"
    /\ rpc[1] = "reading" /\ 1 \in lock[1].readers
    /\ ~lock[1].writer

----------------------------------------------------------------------------
\* What a history of calls says the ConnectionHealth must hold.

IsFailure(c) == c # "ok"

RECURSIVE TrailingFailures(_)
TrailingFailures(cs) ==
    IF cs = <<>> \/ ~IsFailure(cs[Len(cs)])
    THEN 0
    ELSE 1 + TrailingFailures(SubSeq(cs, 1, Len(cs) - 1))

Successes(cs) == Cardinality({i \in 1..Len(cs) : ~IsFailure(cs[i])})

SuccessesAfterFailure(cs) ==
    Cardinality({i \in 2..Len(cs) : ~IsFailure(cs[i]) /\ IsFailure(cs[i - 1])})

LatestError(cs) ==
    IF cs = <<>> \/ ~IsFailure(cs[Len(cs)]) THEN NoError ELSE cs[Len(cs)]

C8_ShouldReconnect ==
    LET limit == h.backoff.max_attempts IN
    /\ should_reconnect(h) <=> (~limit.some \/ h.consecutive_failures < limit.v)
    /\ should_reconnect(h) <=> (~limit.some \/ TrailingFailures(calls) < limit.v)

\* the limit of 2 reached by two failures in a row after a success
C8_Witness ==
    /\ h.backoff.max_attempts = Some(2)
    /\ Len(calls) = 3 /\ ~IsFailure(calls[1])
    /\ h.consecutive_failures = 2
    /\ ~should_reconnect(h)

----------------------------------------------------------------------------
WithinLimit(b, a) == ~b.max_attempts.some \/ a <= b.max_attempts.v

\* C9: delay_for_attempt(attempt) returns no delay iff a limit m is
\* configured and attempt > m; otherwise it returns a delay.
C9_NoDelayIffBeyondLimit ==
    delay # NotEvaluated =>
        (delay.some <=> WithinLimit(b_strategy, attempt))

\* the first attempt past a limit of 3 gets no delay
C9_Witness ==
    /\ b_strategy.max_attempts = Some(3)
    /\ attempt = 4
    /\ delay = None

NoJitter(b) == b.jitter_factor.num = 0

ExpectedDelay(b, a) ==
    Min(b.max_delay, b.base_delay_ms * (2 ^ Min(a - 1, ExponentCap)))

\* C10 as stated: with jitter 0 the delay of attempt a >= 1 within the limit
\* is min(max_delay, base * 2^min(a-1, 20)); while below max_delay each delay
\* is exactly twice the previous one; the delays of successive failures are
\* strictly increasing until the cap (max_delay) is reached.  Stated for the
\* strategies with a base delay above 0.
C10_AsStated ==
    (/\ NoJitter(b_strategy) /\ delay # NotEvaluated
     /\ b_strategy.base_delay_ms > 0
     /\ attempt >= 1 /\ WithinLimit(b_strategy, attempt)) =>
        /\ delay = Some(ExpectedDelay(b_strategy, attempt))
        /\ prev_delay.some =>
              /\ delay.v < b_strategy.max_delay => delay.v = 2 * prev_delay.v
              /\ prev_delay.v < b_strategy.max_delay => delay.v > prev_delay.v

\* C10 (amended): with jitter 0 the delay of attempt a >= 1 within the limit
\* is min(max_delay, base * 2^min(a-1, 20)); the delays of successive
\* failures never decrease; up to attempt 21 (exponent below its cap) a delay
\* below max_delay is exactly twice the previous one, and with a base delay
\* above 0 the delays are strictly increasing until max_delay is reached.
C10_DelaySequence ==
    (/\ NoJitter(b_strategy) /\ delay # NotEvaluated
     /\ attempt >= 1 /\ WithinLimit(b_strategy, attempt)) =>
        /\ delay = Some(ExpectedDelay(b_strategy, attempt))
        /\ prev_delay.some =>
              /\ delay.v >= prev_delay.v
              /\ (attempt <= ExponentCap + 1 /\ delay.v < b_strategy.max_delay)
                    => delay.v = 2 * prev_delay.v
              /\ (/\ attempt <= ExponentCap + 1
                  /\ b_strategy.base_delay_ms > 0
                  /\ prev_delay.v < b_strategy.max_delay)
                    => delay.v > prev_delay.v

\* base 100 ms: the fourth failure in a row waits 800 ms, the third 400 ms
C10_Witness ==
    /\ NoJitter(b_strategy) /\ b_strategy.base_delay_ms = 100
    /\ h.consecutive_failures = 4 /\ attempt = 4
    /\ prev_delay = Some(400) /\ delay = Some(800)

\* C11: a delay returned by delay_for_attempt is at most max_delay, for every
\* strategy and attempt, also after the jitter is added; with base 1 s,
\* max_delay 10 s and jitter 0 the delay for attempt 20 is exactly 10 s.
C11_DelayAtMostMaxDelay ==
    /\ delay.some => delay.v <= b_strategy.max_delay
    /\ prev_delay.some => prev_delay.v <= b_strategy.max_delay
    /\ (/\ b_strategy.base_delay_ms = 1000 /\ b_strategy.max_delay = 10000
        /\ NoJitter(b_strategy) /\ ~b_strategy.max_attempts.some
        /\ attempt = 20 /\ delay # NotEvaluated) => delay = Some(10000)

\* attempt 20 of the strategy with base 1 s, max_delay 10 s and no jitter
C11_Witness ==
    /\ b_strategy.base_delay_ms = 1000 /\ b_strategy.max_delay = 10000
    /\ NoJitter(b_strategy) /\ ~b_strategy.max_attempts.some
    /\ attempt = 20 /\ delay = Some(10000)

----------------------------------------------------------------------------
\* Claims about the dispatcher.

IsStateChange(ev, st) == ev.type = "StateChange" /\ ev.arg = st

\* C12: after a StateChange(Connected) is processed last_error is absent,
\* whatever errors came before; it becomes present again only by an Error
\* event; a StateChange to any other state leaves last_error unchanged.
C12_ConnectedClearsLastError ==
    handled > 0 =>
        /\ IsStateChange(last_event, "Connected") => app.last_error = NoError
        /\ (last_event.type = "StateChange"
              /\ ~IsStateChange(last_event, "Connected")) =>
                 app.last_error = before.last_error
        /\ last_event.type # "Error" =>
                 app.last_error \in {NoError, before.last_error}

\* an error was shown, then StateChange(Connected) was processed
C12_Witness ==
    /\ IsStateChange(last_event, "Connected")
    /\ before.last_error = "e2"
    /\ app.last_error = NoError

MessageCount(tr, t) ==
    IF get_topic_stats(tr, t) = <<>> THEN 0
    ELSE get_topic_stats(tr, t)[1].message_count

----------------------------------------------------------------------------
\* Claims about the message log.

RECURSIVE SumOfCounts(_, _)
SumOfCounts(mb, topics) ==
    IF topics = {} THEN 0
    ELSE LET t == CHOOSE x \in topics : TRUE
         IN count_for_topic(mb, t) + SumOfCounts(mb, topics \ {t})

\* C14: after any sequence of push, clear and clear_topic, for every capacity
\* c and every topic, at most c messages are stored for the topic.
C14_PerTopicAtMostCapacity ==
    \A t \in LogTopics : count_for_topic(mbuf, t) <= mbuf.max_per_topic

\* C15: after any sequence of push, clear and clear_topic, for every capacity,
\* total_stored() is the sum over all topics of count_for_topic(topic).
C15_TotalStoredIsSum ==
    total_stored(mbuf) = SumOfCounts(mbuf, LogTopics)

\* the last k elements of q
LastOf(q, k) == SubSeq(q, Len(q) - k + 1, Len(q))

\* C16: with capacity c >= 1, get_messages(topic) is the last min(n, c) of
\* the n messages pushed to the topic, newest first, get_latest(topic) is the
\* last one pushed, and pushes to other topics change neither.
C16_NewestFirstOldestEvicted ==
    mbuf.max_per_topic >= 1 =>
        \A t \in LogTopics :
            LET n == Len(pushed[t])
                k == Min(n, mbuf.max_per_topic)
            IN /\ get_messages(mbuf, t) = Reverse(LastOf(pushed[t], k))
               /\ get_latest(mbuf, t)
                     = IF n = 0 THEN <<>> ELSE <<pushed[t][n]>>
               /\ count_for_topic(mbuf, t) = k

\* capacity 2: three pushes to a with one push to b in between
C16_Witness ==
    /\ mbuf.max_per_topic = 2
    /\ Len(pushed[<<"a">>]) = 3 /\ Len(pushed[<<"b">>]) = 1
    /\ pushed[<<"b">>][1].id = 2
    /\ get_messages(mbuf, <<"a">>)
          = <<pushed[<<"a">>][3], pushed[<<"a">>][2]>>
    /\ get_messages(mbuf, <<"b">>) = pushed[<<"b">>]

----------------------------------------------------------------------------
\* Claims about the wildcard matcher.

HashSegment == <<"#">>

PlusSegment == <<"+">>

\* pattern segment i is '+' or equals topic segment i
SegmentMatches(pp, tp, i) == pp[i] = PlusSegment \/ pp[i] = tp[i]

\* C17: topic_matches("#", t) is true for every topic t, the empty one too.
C17_BareHashMatchesAll ==
    (matched.done /\ pattern_str = HashSegment) => matched.value

\* the pattern "#" applied to the empty topic
C17_Witness ==
    /\ matched.done /\ matched.value
    /\ pattern_str = HashSegment
    /\ topic_str = <<>>

\* C18: a pattern whose segments before its first '#' segment match the
\* leading segments of the topic matches, whether the topic ends there (a/#
\* and a) or goes on (a/# and a/b/c/d).
C18_HashMatchesRemainder ==
    matched.done =>
        LET pp == split(pattern_str)
            tp == split(topic_str)
        IN \A k \in 1..Len(pp) :
              (/\ pp[k] = HashSegment
               /\ \A i \in 1..(k - 1) : pp[i] # HashSegment
               /\ Len(tp) >= k - 1
               /\ \A i \in 1..(k - 1) : SegmentMatches(pp, tp, i))
                  => matched.value

\* C19: for a pattern without a '#' segment, topic_matches is true iff
\* pattern and topic have the same number of segments and every pattern
\* segment is '+' or equals the topic segment at its position.
C19_NoHashSegmentwise ==
    LET pp == split(pattern_str)
        tp == split(topic_str)
    IN (matched.done /\ \A i \in 1..Len(pp) : pp[i] # HashSegment) =>
          (matched.value <=>
              /\ Len(pp) = Len(tp)
              /\ \A i \in 1..Len(pp) : SegmentMatches(pp, tp, i))

\* a/+ matches a/A
C19_Witness ==
    /\ matched.done /\ matched.value
    /\ pattern_str = <<"a", "/", "+">>
    /\ topic_str = <<"a", "/", "A">>

----------------------------------------------------------------------------
\* Claims about the topic index.

TopicNodes(tr) == {p \in DOMAIN tr.nodes : tr.nodes[p].is_topic}

\* a node's topic string: its segments joined by '/'
RECURSIVE JoinSegments(_)
JoinSegments(p) ==
    IF Len(p) = 1 THEN p[1]
    ELSE JoinSegments(SubSeq(p, 1, Len(p) - 1)) \o <<"/">> \o p[Len(p)]

\* the nodes a set of topic strings creates
NodesOf(topics) ==
    UNION {{SubSeq(split(t), 1, k) : k \in 1..Len(split(t))} : t \in topics}

\* a node is shown when it is a child of the root, or its parent is shown and
\* the parent's full path is expanded
RECURSIVE IsShown(_, _)
IsShown(p, expanded) ==
    \/ Len(p) = 1
    \/ /\ IsShown(SubSeq(p, 1, Len(p) - 1), expanded)
       /\ JoinSegments(SubSeq(p, 1, Len(p) - 1)) \in expanded

\* depth-first pre-order with siblings in the order of their segments
RECURSIVE PathLess(_, _)
PathLess(p, q) ==
    IF p = <<>> THEN q # <<>>
    ELSE IF q = <<>> THEN FALSE
    ELSE IF p[1] = q[1] THEN PathLess(Tail(p), Tail(q))
    ELSE StrLess(p[1], q[1])

\* the node the i-th TopicInfo of a result stands for: its segment below the
\* node of the nearest earlier TopicInfo one level up
RECURSIVE NodeAt(_, _)
NodeAt(r, i) ==
    IF r[i].depth = 0 \/ \A j \in 1..(i - 1) : r[j].depth # r[i].depth - 1
    THEN <<r[i].segment>>
    ELSE LET j == CHOOSE j \in 1..(i - 1) :
                     /\ r[j].depth = r[i].depth - 1
                     /\ \A k \in (j + 1)..(i - 1) : r[k].depth # r[j].depth
         IN Append(NodeAt(r, j), r[i].segment)

\* C20: topic_count() is the number of distinct topic strings inserted since
\* the last clear, and the number of nodes whose is_topic is set: inserting a
\* topic again does not count, a prefix and its extension count once each.
C20_TopicCountIsDistinctTopics ==
    /\ topic_count(topic_tree) = Cardinality(inserted)
    /\ topic_count(topic_tree) = Cardinality(TopicNodes(topic_tree))
    /\ TopicNodes(topic_tree) = {split(t) : t \in inserted}

\* a/b inserted twice and a/b/c once: two topics, a is no topic
C20_Witness ==
    /\ tree_ops = 3
    /\ inserted = {<<"a", "/", "b">>, <<"a", "/", "b", "/", "c">>}
    /\ tree_query = NoQuery
    /\ MessageCount(topic_tree, <<"a", "/", "b">>) = 2
    /\ topic_count(topic_tree) = 2
    /\ get_topic_stats(topic_tree, <<"a">>) = <<>>

\* C21: get_visible_topics(expanded) returns, in depth-first pre-order with
\* siblings in lexicographic segment order, every child of the root and every
\* deeper node whose parent is returned and has its full path in expanded,
\* and no other node; the sequence is a function of the set of inserted
\* topics and of expanded.
C21_VisibleTopics ==
    tree_query.op = "get_visible_topics" =>
        LET r == tree_query.result
            shown == {p \in NodesOf(inserted) :
                        IsShown(p, tree_query.expanded)}
        IN /\ Len(r) = Cardinality(shown)
           /\ {NodeAt(r, i) : i \in 1..Len(r)} = shown
           /\ \A i, j \in 1..Len(r) :
                 i < j => PathLess(NodeAt(r, i), NodeAt(r, j))
           /\ \A i \in 1..Len(r) : r[i].depth = Len(NodeAt(r, i)) - 1

\* C22: search(s) returns, each exactly once, the full paths of the nodes
\* with is_topic set whose full path contains s case-insensitively, and
\* nothing else; the empty tree yields the empty result.
C22_SearchResult ==
    tree_query.op = "search" =>
        LET r == tree_query.result
            hits == {t \in inserted :
                       contains(to_lowercase(t),
                                to_lowercase(tree_query.pattern))}
        IN /\ Len(r) = Cardinality(hits)
           /\ {r[i] : i \in 1..Len(r)} = hits

----------------------------------------------------------------------------
\* Claims about the traffic statistics.

RECURSIVE SumOfSizes(_)
SumOfSizes(arrivals) ==
    IF arrivals = <<>> THEN 0
    ELSE arrivals[1].size + SumOfSizes(Tail(arrivals))

\* C23: between resets total_messages is the number of record_message calls
\* and total_bytes the sum of their sizes, whatever was pruned and however
\* much time has passed; reset() zeroes both and empties both windows.
C23_TotalsCountRecords ==
    /\ stats_op # "None" =>
          /\ traffic.total_messages = Len(recorded)
          /\ traffic.total_bytes = SumOfSizes(recorded)
    /\ stats_op = "reset" =>
          /\ traffic.total_messages = 0
          /\ traffic.total_bytes = 0
          /\ traffic.message_times = <<>>
          /\ traffic.message_sizes = <<>>

\* three messages recorded, two of them pruned from the window
C23_Witness ==
    /\ stats_op = "record_message"
    /\ traffic.total_messages = 3
    /\ traffic.total_bytes = 4
    /\ Len(traffic.message_times) = 1

\* the arrivals since the last reset that are no older than the window
Recent(arrivals, time, window_secs) ==
    SelectSeq(arrivals, LAMBDA a : a.time >= time - window_secs)

\* two quotients are the same number
SameRate(r1, r2) == r1.num * r2.den = r2.num * r1.den

C24_WitnessCold ==
    /\ stats_op = "rates"
    /\ recorded # <<>>
    /\ traffic.message_times # <<>>
    /\ recorded[Len(recorded)].time < now - traffic.window
    /\ rates.messages.num = 0
    /\ rates.bytes.num = 0

----------------------------------------------------------------------------
\* Claims about the metric tracker.

\* the values a metric was to record: those of the messages since track()
\* whose topic matched its pattern and whose field path resolved to a number
RECURSIVE ValuesOf(_, _)
ValuesOf(metric, log) ==
    IF log = <<>> THEN <<>>
    ELSE LET m == log[Len(log)]
             earlier == ValuesOf(metric, SubSeq(log, 1, Len(log) - 1))
             value == IF m.payload.is_json
                      THEN extract_numeric(m.payload.json, metric.field_path)
                      ELSE None
         IN IF topic_matches(metric.topic_pattern, m.topic) /\ value.some
            THEN Append(earlier, value.v)
            ELSE earlier

RECURSIVE SumOfValues(_)
SumOfValues(values) ==
    IF values = <<>> THEN 0 ELSE values[1] + SumOfValues(Tail(values))

\* C25: for every tracked metric count, sum, min and max are those of all the
\* values it was to record, evicted ones included, and latest() is the most
\* recent of them.
C25_RunningStatistics ==
    \A l \in DOMAIN tracker.metrics :
        LET metric == tracker.metrics[l]
            values == ValuesOf(metric, metric_log[l])
        IN /\ metric.count = Len(values)
           /\ metric.sum = SumOfValues(values)
           /\ values # <<>> =>
                 /\ metric.min = LeastOf(values)
                 /\ metric.max = GreatestOf(values)
                 /\ latest(metric) = Some(values[Len(values)])
                 /\ \A i \in 1..Len(values) :
                       metric.min <= values[i] /\ values[i] <= metric.max

\* 1500, 1450, 1600 on t/d/m, a series of one point: min 1450, max 1600,
\* sum 4550, count 3, latest 1600
C25_Witness ==
    /\ "Power" \in DOMAIN tracker.metrics
    /\ tracker.max_points = 1
    /\ ValuesOf(tracker.metrics["Power"], metric_log["Power"])
          = <<1500, 1450, 1600>>
    /\ tracker.metrics["Power"].min = 1450
    /\ tracker.metrics["Power"].max = 1600
    /\ tracker.metrics["Power"].sum = 4550
    /\ tracker.metrics["Power"].count = 3
    /\ latest(tracker.metrics["Power"]) = Some(1600)

\* C26: the series of every tracked metric holds at most max_points samples,
\* and they are the most recent min(count, max_points) recorded values in
\* arrival order.
C26_SeriesIsMostRecent ==
    \A l \in DOMAIN tracker.metrics :
        LET metric == tracker.metrics[l]
            values == ValuesOf(metric, metric_log[l])
            kept == Min(metric.count, tracker.max_points)
        IN /\ Len(metric.data) <= tracker.max_points
           /\ Len(metric.data) = kept
           /\ \A i \in 1..kept :
                 metric.data[i].value = values[Len(values) - kept + i]

\* three values recorded into a series of two points
C26_Witness ==
    /\ "Power" \in DOMAIN tracker.metrics
    /\ tracker.max_points = 2
    /\ tracker.metrics["Power"].count = 3
    /\ Len(tracker.metrics["Power"].data) = 2
    /\ tracker.metrics["Power"].data[1].value = 1450
    /\ tracker.metrics["Power"].data[2].value = 1600

\* the message processed last is skipped by the metric: it is no JSON, its
\* topic does not match, or the field path resolves to no number
Skipped(metric, m) ==
    \/ ~m.payload.is_json
    \/ ~topic_matches(metric.topic_pattern, m.topic)
    \/ ~extract_numeric(m.payload.json, metric.field_path).some

\* C27: process_message leaves a metric it skips as it was, and a metric it
\* does not skip is updated whatever happened to the others.
C27_SkipLeavesMetricUnchanged ==
    metric_op = "process_message" =>
        /\ DOMAIN tracker.metrics = DOMAIN tracker_before.metrics
        /\ tracker.max_points = tracker_before.max_points
        /\ \A l \in DOMAIN tracker.metrics :
              IF Skipped(tracker_before.metrics[l], last_message)
              THEN tracker.metrics[l] = tracker_before.metrics[l]
              ELSE tracker.metrics[l].count
                       = tracker_before.metrics[l].count + 1

\* {"W": "x", "d": {"p": 1}} on t/d/m: Power is skipped for the wrong type of
\* W, Deep is updated
C27_Witness ==
    /\ metric_op = "process_message"
    /\ DOMAIN tracker.metrics = MetricLabels
    /\ last_message = [topic |-> MeterTopic, payload |-> PayloadWrongType]
    /\ tracker_before.metrics["Power"].count = 1
    /\ tracker.metrics["Power"] = tracker_before.metrics["Power"]
    /\ tracker.metrics["Deep"].count = tracker_before.metrics["Deep"].count + 1

\* a sample lies in [0, 1]
InUnitInterval(q) == q.den > 0 /\ 0 <= q.num /\ q.num <= q.den

\* C28 as stated: sparkline_data(width) of a non-empty series returns exactly
\* width samples, each in [0, 1], all 0 when max = min.
C28_AsStated ==
    (metric_op = "sparkline_data" /\ tracker.metrics[spark.label].data # <<>>)
        => /\ Len(spark.samples) = spark.width
           /\ \A i \in 1..Len(spark.samples) :
                 InUnitInterval(spark.samples[i])
           /\ tracker.metrics[spark.label].max
                    = tracker.metrics[spark.label].min
                 => \A i \in 1..Len(spark.samples) :
                       spark.samples[i].num = 0

\* C28: sparkline_data(width) of a non-empty series returns min(width, length
\* of the series) samples, each in [0, 1], all 0 when max = min.
C28_SparklineSamples ==
    (metric_op = "sparkline_data" /\ tracker.metrics[spark.label].data # <<>>)
        => /\ Len(spark.samples)
                 = Min(spark.width, Len(tracker.metrics[spark.label].data))
           /\ \A i \in 1..Len(spark.samples) :
                 InUnitInterval(spark.samples[i])
           /\ tracker.metrics[spark.label].max
                    = tracker.metrics[spark.label].min
                 => \A i \in 1..Len(spark.samples) :
                       spark.samples[i].num = 0

\* a series of two points read at width 1, its range set by an evicted value
C28_Witness ==
    /\ metric_op = "sparkline_data"
    /\ spark.width = 1
    /\ Len(tracker.metrics[spark.label].data) = 2
    /\ tracker.metrics[spark.label].count = 3
    /\ tracker.metrics[spark.label].min < tracker.metrics[spark.label].data[1].value
    /\ Len(spark.samples) = 1
    /\ spark.samples[1].num > 0

----------------------------------------------------------------------------
\* Claims about the device tracker.

\* the rate of a device over the window that ends now, from all its arrivals
ArrivalRate(times, window, time) ==
    Fraction(60 * Cardinality({i \in 1..Len(times) : time - times[i] < window}),
             window)

\* the status the priority order gives a device
StatusByPriority(id, time) ==
    LET times == dev_arrivals[id]
        rate == ArrivalRate(times, RateWindowSecs, time)
    IN IF time - times[Len(times)] > StaleThresholdSecs THEN "Stale"
       ELSE IF AtLeast(rate, Fraction(1, 1)) THEN "Healthy"
       ELSE IF AtLeast(rate, Fraction(1, 10)) \/ Len(times) > 0 THEN "Warning"
       ELSE "Unknown"

Silent(id) ==
    /\ id \in DOMAIN dev_tracker.devices
    /\ now - dev_tracker.devices[id].last_seen > StaleThresholdSecs

ReportedStale(id) ==
    /\ id \in DOMAIN displayed.statuses
    /\ displayed.statuses[id] = "Stale"

\* C30: in the running system a device silent for more than 300 s is
\* eventually reported Stale, unless a message of it arrives after all.
C30_SilentDeviceReportedStale ==
    \A id \in {<<"d", "1">>, <<"d", "2">>} :
        Silent(id) ~> (ReportedStale(id) \/ ~Silent(id))

\* the device a topic of DeviceTopics belongs to, by the shapes
\* telemetry/{id}/..., devices/{id}/..., sites/{site}/devices/{id}/...
ExpectedDevice(topic) ==
    IF topic \in {TelemetryD1, SitesD1} THEN <<<<"d", "1">>>>
    ELSE IF topic = DevicesD2 THEN <<<<"d", "2">>>>
    ELSE <<>>

\* C31: process_message on a topic of no recognized shape leaves the device
\* tracker as it was; on a recognized topic it touches the entry of the
\* device the shape names and no other entry, creating the entry with the
\* first message, and the entry counts all the messages of that device
\* whatever the shape of their topics.
C31_DeviceOfTopic ==
    [][dev_op' = "process_message" =>
         LET id == ExpectedDevice(dev_topic')
             devices_before == dev_tracker.devices
             devices_after == dev_tracker'.devices
         IN IF id = <<>> THEN dev_tracker' = dev_tracker
            ELSE /\ DOMAIN devices_after = DOMAIN devices_before \cup {id[1]}
                 /\ \A other \in DOMAIN devices_before \ {id[1]} :
                       devices_after[other] = devices_before[other]
                 /\ devices_after[id[1]].device_id = id[1]
                 /\ devices_after[id[1]].message_count =
                       (IF id[1] \in DOMAIN devices_before
                        THEN devices_before[id[1]].message_count ELSE 0) + 1
                 /\ devices_after[id[1]].message_count =
                       Len(dev_arrivals'[id[1]])
                 /\ devices_after[id[1]].last_seen = now
                 /\ [dev_tracker' EXCEPT !.devices = devices_before]
                       = dev_tracker]_vars

\* d1 has got one message on telemetry/d1/meter and one on
\* sites/s1/devices/d1/x: one entry, two messages, two topics
C31_Witness ==
    /\ dev_op = "process_message"
    /\ dev_topic = SitesD1
    /\ DOMAIN dev_tracker.devices = {<<"d", "1">>}
    /\ dev_tracker.devices[<<"d", "1">>].message_count = 2
    /\ dev_tracker.devices[<<"d", "1">>].topics = <<TelemetryD1, SitesD1>>

----------------------------------------------------------------------------
\* Claims about the schema tracker.

PathCD == <<"c", ".", "d">>

PathE0 == <<"e", "[", "0", "]">>

\* the flattened field map of each payload of SchemaPayloads, written out
ExpectedFields(payload) ==
    CASE payload = SchemaPayload1 ->
           MapPut(MapPut(EmptyMap, KeyA, "Number"), KeyB, "String")
      [] payload = SchemaPayload2 ->
           MapPut(MapPut(MapPut(EmptyMap, KeyA, "String"), KeyC, "Object"),
                  PathCD, "Null")
      [] payload = SchemaPayload3 ->
           MapPut(MapPut(MapPut(EmptyMap, KeyA, "Number"), KeyE, "Array"),
                  PathE0, "Boolean")
      [] OTHER -> EmptyMap

\* the changes from one field map to the next, as the claim lists them
ExpectedChanges(topic, stored, fresh) ==
    {[topic |-> topic, change_type |-> "FieldAdded", field_path |-> f,
      old_type |-> <<>>, new_type |-> <<fresh[f]>>] :
        f \in DOMAIN fresh \ DOMAIN stored}
    \cup
    {[topic |-> topic, change_type |-> "FieldRemoved", field_path |-> f,
      old_type |-> <<stored[f]>>, new_type |-> <<>>] :
        f \in DOMAIN stored \ DOMAIN fresh}
    \cup
    {[topic |-> topic, change_type |-> "TypeChanged", field_path |-> f,
      old_type |-> <<stored[f]>>, new_type |-> <<fresh[f]>>] :
        f \in {g \in DOMAIN stored \cap DOMAIN fresh : stored[g] # fresh[g]}}

\* a returned change without its timestamp
Described(c) ==
    [topic |-> c.topic, change_type |-> c.change_type,
     field_path |-> c.field_path, old_type |-> c.old_type,
     new_type |-> c.new_type]

\* the step is a process_message call
IsSchemaMessage == schema_call'.n = schema_call.n + 1

\* C32: process_message with a JSON payload returns nothing for the first
\* JSON message of the topic and otherwise one change per field added,
\* removed or of another type since the last JSON message of that topic, each
\* once and nothing else; the stored map of the topic becomes the new map and
\* the maps of the other topics stay.
C32_SchemaDiff ==
    [][(IsSchemaMessage /\ schema_call'.payload.is_json) =>
         LET t == schema_call'.topic
             fresh == ExpectedFields(schema_call'.payload)
             result == schema_call'.returned
             expected == IF t \in DOMAIN schema_seen
                         THEN ExpectedChanges(t, ExpectedFields(schema_seen[t]),
                                              fresh)
                         ELSE {}
         IN /\ Len(result) = Cardinality(expected)
            /\ {Described(result[i]) : i \in 1..Len(result)} = expected
            /\ DOMAIN schema_tracker'.schemas
                  = DOMAIN schema_tracker.schemas \cup {t}
            /\ schema_tracker'.schemas[t] = fresh
            /\ \A u \in DOMAIN schema_tracker.schemas \ {t} :
                  schema_tracker'.schemas[u] = schema_tracker.schemas[u]]_vars

\* {"a": "s", "c": {"d": null}} after {"a": 1, "b": "x"} on s/a, with
\* another schema stored for s/b: c and c.d added, b removed, a changed from
\* Number to String
C32_Witness ==
    /\ schema_call.op = "process_message"
    /\ schema_call.topic = SchemaTopicA
    /\ schema_call.payload = SchemaPayload2
    /\ Len(schema_call.returned) = 4
    /\ \E i \in 1..4 :
          /\ schema_call.returned[i].change_type = "TypeChanged"
          /\ schema_call.returned[i].old_type = <<"Number">>
          /\ schema_call.returned[i].new_type = <<"String">>
    /\ \E i \in 1..4 :
          /\ schema_call.returned[i].change_type = "FieldRemoved"
          /\ schema_call.returned[i].field_path = KeyB
    /\ SchemaTopicB \in DOMAIN schema_tracker.schemas

\* C33: process_message with a payload that is no JSON returns no change and
\* leaves the tracker as it was, stored schemas and history; the schema
\* stored for a topic is always that of the last JSON payload of the topic.
C33_NotJsonIgnored ==
    [][/\ (IsSchemaMessage /\ ~schema_call'.payload.is_json) =>
            /\ schema_call'.returned = <<>>
            /\ schema_tracker' = schema_tracker
       /\ IsSchemaMessage =>
            /\ DOMAIN schema_tracker'.schemas = DOMAIN schema_seen'
            /\ \A t \in DOMAIN schema_seen' :
                  schema_tracker'.schemas[t]
                      = ExpectedFields(schema_seen'[t])]_vars

\* a payload that is no JSON on s/a, after two JSON messages on s/a that
\* left a schema of three fields and four changes
C33_Witness ==
    /\ schema_call.op = "process_message"
    /\ schema_call.n = 3
    /\ schema_call.topic = SchemaTopicA
    /\ ~schema_call.payload.is_json
    /\ schema_call.returned = <<>>
    /\ schema_tracker.schemas = MapPut(EmptyMap, SchemaTopicA,
                                       ExpectedFields(SchemaPayload2))
    /\ Len(schema_detected) = 4
    /\ schema_tracker.changes # <<>>

\* C34: the history holds at most max_changes changes: the last ones of all
\* the changes returned since it was cleared, in the order they were
\* returned.
C34_HistoryIsMostRecent ==
    /\ Len(schema_tracker.changes) <= schema_tracker.max_changes
    /\ schema_tracker.changes =
          LastOf(schema_detected,
                 Min(Len(schema_detected), schema_tracker.max_changes))

\* a history of two that was full when a message brought five changes
C34_Witness ==
    /\ schema_tracker.max_changes = 2
    /\ schema_call.op = "process_message"
    /\ Len(schema_call.returned) = 5
    /\ Len(schema_detected) = 8
    /\ schema_tracker.changes = SubSeq(schema_call.returned, 4, 5)

----------------------------------------------------------------------------
\* Claims about the latency tracker.

\* the payloads whose time lies hundreds of millions of years back
AncientPayloads == {LatencyAncient, LatencyMinString}

\* the age in ms, at WallStart, of the time each other payload of
\* LatencyPayloads carries; <<>> for a payload that carries none
EmbeddedAge(payload) ==
    CASE payload = LatencySeconds -> <<616>>
      [] payload = LatencyMillis -> <<5000>>
      [] payload = LatencyString -> <<500>>
      [] payload = LatencyFuture -> <<0 - 1384>>
      [] payload = LatencyHourOld -> <<3600000>>
      [] OTHER -> <<>>

\* now - embedded time, when the payload carries a time and
\* 0 <= now - embedded time < 1 hour
AcceptedLatency(payload, time) ==
    LET age == EmbeddedAge(payload) IN
    IF payload \notin AncientPayloads /\ age # <<>>
       /\ 0 <= age[1] + time /\ age[1] + time < 3600000
    THEN <<age[1] + time>> ELSE <<>>

\* the payload-latency statistics
PayloadStatistics(lt) ==
    <<lt.payload_latency_count, lt.min_payload_latency, lt.max_payload_latency,
      lt.total_payload_latency, lt.payload_latencies>>

\* C35: record_message raises no error; it leaves the payload-latency
\* statistics as they were unless the payload carries a time with
\* 0 <= now - time < 1 hour, records that latency when it does, and counts
\* the inter-arrival time of every message but the first.
C35_OnlyReasonableLatencies ==
    [][lat_call'.n = lat_call.n + 1 =>
         LET latency == AcceptedLatency(lat_call'.payload, now) IN
         /\ ~lat_call'.panic
         /\ IF latency = <<>>
            THEN PayloadStatistics(lat_tracker')
                   = PayloadStatistics(lat_tracker)
            ELSE /\ lat_tracker'.payload_latency_count
                      = lat_tracker.payload_latency_count + 1
                 /\ lat_tracker'.total_payload_latency
                      = lat_tracker.total_payload_latency + latency[1]
                 /\ lat_tracker'.payload_latencies # <<>>
                 /\ lat_tracker'.payload_latencies[
                        Len(lat_tracker'.payload_latencies)] = latency[1]
         /\ lat_tracker'.inter_arrival_count
              = lat_tracker.inter_arrival_count
                  + (IF lat_call.n > 0 THEN 1 ELSE 0)
         /\ lat_tracker'.last_message_time = <<now>>]_vars

----------------------------------------------------------------------------
\* Claims about construction, and about the main loop and the event channel.

\* C36: an invalid configuration makes construction fail, so a component built
\* from one never reaches runtime use: a message log on which push, clear or
\* clear_topic has been called was built with a capacity of at least 1.
C36_InvalidConfigurationRejected ==
    log_ops > 0 => mbuf.max_per_topic >= 1

\* the step is handle_mqtt_event taking a Message off the channel into the
\* statistics
IngestsMessage ==
    /\ main_pc = "loop"
    /\ channel # <<>>
    /\ Head(channel).type = "Message"
    /\ channel' = Tail(channel)
    /\ total_messages' = total_messages + 1

\* C37: a Message the dispatcher ingests was produced by the task of the
\* client the main loop holds now: after reset_for_server_switch no Message of
\* the previous connection's task, queued before the switch or sent after it,
\* is counted into the state of the new connection.
C37_NoStaleMessageIngested ==
    [][IngestsMessage => Head(channel).from = mqtt_client]_vars

\* C38: StateChange(Connecting) of a connection is placed on the channel before
\* any event of that connection's task: as long as the caller has not sent
\* Connecting, the channel holds no event of the client just created.
C38_ConnectingFirst ==
    main_pc = "send_connecting" =>
        \A i \in 1..Len(channel) : channel[i].from # mqtt_client

\* C40: with use_exact_client_id every backoff sleep lasts at least
\* keep_alive_secs + 2 s, also beyond the strategy's max_delay; without it the
\* sleep is the delay of next_reconnect_delay() for the failures in a row.
C40_SleepLength ==
    \A t \in Tasks :
        pc[t] = "sleep" =>
            IF server_config.use_exact_client_id
            THEN sleep_delay[t]
                    >= (server_config.keep_alive_secs + MinDelayExtraSecs) * 1000
            ELSE sleep_delay[t] = next_reconnect_delay(health[t]).v

\* a task asleep for keep_alive + 2 s, longer than the strategy's max_delay
C40_Witness ==
    /\ server_config.use_exact_client_id
    /\ pc[1] = "sleep"
    /\ sleep_delay[1] > strategy.max_delay
    /\ sleep_delay[1]
          = (server_config.keep_alive_secs + MinDelayExtraSecs) * 1000

====
